---- MODULE Spec2Model ----
(***************************************************************************)
(* Model of the Benchmark Analytics Engine core (core/analyzer.py):        *)
(* PortfolioAnalyzer turns price tables into return series, aligns the     *)
(* portfolio and benchmark series on their common dates and computes the   *)
(* comparison metrics; the rolling loop of core/chart_maker.py recomputes  *)
(* beta and correlation over sliding windows.                              *)
(*                                                                         *)
(* Numbers.  A Python float is modelled as an exact extended rational      *)
(* <<n, d>> in lowest terms with d >= 0: d > 0 is the finite value n/d,    *)
(* <<0,0>> is NaN, <<1,0>> is +inf and <<-1,0>> is -inf.  Rounding error   *)
(* is abstracted away; division by zero gives the IEEE result numpy and    *)
(* pandas give (no exception).                                             *)
(*                                                                         *)
(* Series and tables.  A pandas Series is [index, values], two sequences   *)
(* of the same length; a DataFrame is [index, data] with one value         *)
(* sequence per column.  Dates are integers (day numbers).                 *)
(***************************************************************************)
EXTENDS Integers, Sequences, FiniteSets, TLC

VARIABLES
    portfolio_prices,   \* argument: DataFrame of instrument prices
    benchmark_prices,   \* argument: Series of benchmark prices
    weights,            \* argument: [given, map]; given = FALSE is None
    fill_method,        \* pct_change default of the installed pandas
    index_kind,         \* "datetime" or "other": type of the index labels
    risk_free_rate,     \* self.risk_free_rate (annual)
    pc,                 \* position of the call being modelled
    portfolio_returns,  \* local / argument: portfolio return Series
    benchmark_returns,  \* local / argument: benchmark return Series
    aligned_data,       \* result of _align_data: [ok, portfolio, benchmark]
    results,            \* returned dict of analyze_portfolio_vs_benchmark
    call,               \* outcome of a call: [fn, raised, value, ...]
    today,              \* the day datetime.now() falls on
    formatted,          \* returned dict of format_results
    symbols,            \* safe_data_fetch: argument, the symbols asked for
    valid_symbols,      \* safe_data_fetch: the symbols that validated
    target,             \* position of the loop over symbols (from 1)
    fetch_attempt,      \* safe_data_fetch: attempt of its loop, -1 before it
    portfolio_data,     \* get_portfolio_data: [kind, columns, empty]
    fetched,            \* safe_data_fetch: the pair returned
    svc_pc,             \* position in safe_data_fetch
    attempt,            \* get_stock_data: attempt of its loop
    stock_log,          \* get_stock_data: responses received and sleeps
    stock_data,         \* get_stock_data: value returned, or "pending"
    entry,              \* portfolio_entry: its text, as fields
    portfolio_weights,  \* self.portfolio_weights: symbol -> percent
    weight_entries,     \* self.weight_entries: [texts, destroyed]
    weight_validation_label,  \* text kind of the validation label
    analyze_button,     \* state of analyze_button
    progress,           \* the progress bar: "started" or "stopped"
    timers,             \* callbacks scheduled with root.after
    portfolio_change_timer,   \* self._portfolio_change_timer, 0: not set
    current_results,    \* self.current_results
    ran,                \* run_analysis in the step just taken, or NoRun
    burst               \* time since the portfolio entry last changed

analyzerVars ==
    <<portfolio_prices, benchmark_prices, weights, fill_method, index_kind,
      risk_free_rate, pc, portfolio_returns, benchmark_returns,
      aligned_data, results, call, today>>

formatVars == <<formatted>>

serviceVars ==
    <<symbols, valid_symbols, target, fetch_attempt, portfolio_data, fetched,
      svc_pc, attempt, stock_log, stock_data>>

dashboardVars ==
    <<entry, portfolio_weights, weight_entries, weight_validation_label,
      analyze_button, progress, timers, portfolio_change_timer,
      current_results, ran, burst>>

\* the state that the analyzer's calculations leave alone
outsideAnalyzer == <<formatVars, serviceVars, dashboardVars>>

vars == <<analyzerVars, formatVars, serviceVars, dashboardVars>>

(***************************************************************************)
(* Float arithmetic                                                        *)
(***************************************************************************)
Abs(n) == IF n < 0 THEN -n ELSE n

Sgn(n) == IF n < 0 THEN -1 ELSE IF n > 0 THEN 1 ELSE 0

RECURSIVE GCD(_, _)
GCD(a, b) == IF b = 0 THEN a ELSE GCD(b, a % b)

Norm(n, d) ==
    IF d = 0 THEN <<Sgn(n), 0>>
    ELSE LET g == GCD(Abs(n), Abs(d))
             s == Sgn(d)
         IN  <<(s * n) \div g, (s * d) \div g>>

NaN == <<0, 0>>

Zero == <<0, 1>>

One == <<1, 1>>

Num(n) == <<n, 1>>

IsNaN(x) == x = NaN

IsFinite(x) == x[2] > 0

FAdd(x, y) ==
    IF x[2] = 0 \/ y[2] = 0
    THEN Norm(x[1] * y[2] + y[1] * x[2], 0)
    ELSE LET g == GCD(x[2], y[2])
         IN  Norm(x[1] * (y[2] \div g) + y[1] * (x[2] \div g),
                  (x[2] \div g) * y[2])

FNeg(x) == <<-x[1], x[2]>>

FSub(x, y) == FAdd(x, FNeg(y))

FMul(x, y) ==
    IF x[2] = 0 \/ y[2] = 0 \/ x[1] = 0 \/ y[1] = 0
    THEN Norm(x[1] * y[1], x[2] * y[2])
    ELSE LET g1 == GCD(Abs(x[1]), y[2])
             g2 == GCD(Abs(y[1]), x[2])
         IN  Norm((x[1] \div g1) * (y[1] \div g2),
                  (x[2] \div g2) * (y[2] \div g1))

FInv(x) == Norm(x[2], x[1])

FDiv(x, y) == FMul(x, FInv(y))

FLess(x, y) == x # NaN /\ y # NaN /\ x[1] * (IF y[2] = 0 THEN 1 ELSE y[2])
                                      < y[1] * (IF x[2] = 0 THEN 1 ELSE x[2])
                                   /\ ~(x[2] = 0 /\ y[2] = 0 /\ x = y)

(***************************************************************************)
(* Series helpers                                                          *)
(***************************************************************************)
Range(s) == {s[i] : i \in DOMAIN s}

Series(idx, vals) == [index |-> idx, values |-> vals]

EmptySeries == Series(<<>>, <<>>)

RECURSIVE SumSeq(_)
SumSeq(s) == IF s = <<>> THEN Zero ELSE FAdd(SumSeq(Tail(s)), Head(s))

RECURSIVE SumOver(_, _)
SumOver(S, f) ==
    IF S = {} THEN Zero
    ELSE LET k == CHOOSE k \in S : TRUE
         IN  FAdd(SumOver(S \ {k}, f), f[k])

\* positions of a sequence that satisfy keep, in increasing order
RECURSIVE Positions(_, _)
Positions(n, keep) ==
    IF n = 0 THEN <<>>
    ELSE IF keep[n] THEN Append(Positions(n - 1, keep), n)
         ELSE Positions(n - 1, keep)

\* the value of a function, every element computed once
Eager(f) == f @@ <<>>

Take(s, pos) == Eager([k \in 1..Len(pos) |-> s[pos[k]]])

(***************************************************************************)
(* pandas operations used by the analyzer                                  *)
(***************************************************************************)
\* forward fill: a missing value takes the last value before it
RECURSIVE Pad(_)
Pad(s) ==
    IF s = <<>> THEN <<>>
    ELSE LET p == Pad(SubSeq(s, 1, Len(s) - 1))
             x == s[Len(s)]
         IN  Append(p, IF IsNaN(x) /\ Len(p) > 0 THEN p[Len(p)] ELSE x)

\* pct_change(periods=2): the change against the value two rows back
PctChangeTwoPeriods(s, fm) ==
    LET data == IF fm = "pad" THEN Pad(s) ELSE s
    IN  Eager([i \in 1..Len(s) |->
            IF i <= 2 THEN NaN ELSE FSub(FDiv(data[i], data[i - 2]), One)])

\* pct_change of one column: data / data.shift(1) - 1, after the fill
PctChangeValues(s, fm) ==
    LET data == IF fm = "pad" THEN Pad(s) ELSE s
    IN  Eager([i \in 1..Len(s) |->
            IF i = 1 THEN NaN ELSE FSub(FDiv(data[i], data[i - 1]), One)])

\* Series.pct_change().dropna()
SeriesReturns(prices, fm) ==
    LET r   == PctChangeValues(prices.values, fm)
        ok  == Eager([i \in 1..Len(r) |-> ~IsNaN(r[i])])
        pos == Positions(Len(r), ok)
    IN  Series(Take(prices.index, pos), Take(r, pos))

\* dropna(how="all"): a row is dropped only when every column is NaN
FrameReturnsDropAll(prices, fm) ==
    LET cols == DOMAIN prices.data
        r    == Eager([c \in cols |-> PctChangeValues(prices.data[c], fm)])
        n    == Len(prices.index)
        ok   == Eager([i \in 1..n |-> \E c \in cols : ~IsNaN(r[c][i])])
        pos  == Positions(n, ok)
    IN  [index |-> Take(prices.index, pos),
         data  |-> Eager([c \in cols |-> Take(r[c], pos)])]

\* DataFrame.pct_change().dropna(): a row is kept when no column is NaN
FrameReturns(prices, fm) ==
    LET cols == DOMAIN prices.data
        r    == Eager([c \in cols |-> PctChangeValues(prices.data[c], fm)])
        n    == Len(prices.index)
        ok   == Eager([i \in 1..n |-> \A c \in cols : ~IsNaN(r[c][i])])
        pos  == Positions(n, ok)
    IN  [index |-> Take(prices.index, pos),
         data  |-> Eager([c \in cols |-> Take(r[c], pos)])]

\* DataFrame.mean(axis=1) on a table without missing values
RowMean(frame) ==
    LET cols == DOMAIN frame.data
    IN  Series(frame.index,
               Eager([i \in 1..Len(frame.index) |->
                   FDiv(SumOver(cols, [c \in cols |-> frame.data[c][i]]),
                        Num(Cardinality(cols)))]))

(***************************************************************************)
(* PortfolioAnalyzer._calculate_portfolio_returns                          *)
(***************************************************************************)
\* the loop adding stock_returns[symbol] without its weight
WeightedSumUnweighted(stock_returns, w) ==
    LET hit == {s \in DOMAIN w : s \in DOMAIN stock_returns.data}
    IN  Series(stock_returns.index,
               Eager([i \in 1..Len(stock_returns.index) |->
                   SumOver(hit, [s \in hit |-> stock_returns.data[s][i]])]))

\* the loop over weights.items(): symbols that are no column are skipped
WeightedSum(stock_returns, w) ==
    LET hit == {s \in DOMAIN w : s \in DOMAIN stock_returns.data}
    IN  Series(stock_returns.index,
               Eager([i \in 1..Len(stock_returns.index) |->
                   SumOver(hit, [s \in hit |->
                       FMul(stock_returns.data[s][i], w[s])])]))

\* the sum of the weights of the symbols found in the price table only
TotalWeightMatched(w) ==
    LET hit == {s \in DOMAIN w : s \in {"A", "B"}}
    IN  SumOver(hit, w)

\* sum(weights.values())
TotalWeight(w) == SumOver(DOMAIN w, w)

\* the division without the total_weight != 0 guard
NormalizeUnguarded(series, total_weight) ==
    Series(series.index,
           Eager([i \in 1..Len(series.index) |->
               FDiv(series.values[i], total_weight)]))

\* portfolio_returns / total_weight, only when total_weight != 0
NormalizeByTotal(series, total_weight) ==
    IF total_weight # Zero
    THEN Series(series.index,
                Eager([i \in 1..Len(series.index) |->
                    FDiv(series.values[i], total_weight)]))
    ELSE series

calculate_portfolio_returns(prices, w, fm) ==
    LET stock_returns == FrameReturns(prices, fm)
    IN  IF ~w.given
        THEN RowMean(stock_returns)
        ELSE NormalizeByTotal(WeightedSum(stock_returns, w.map),
                              TotalWeight(w.map))

(***************************************************************************)
(* PortfolioAnalyzer._align_data                                           *)
(***************************************************************************)
MinOverlap == 30

\* _align_data returning None
NoAligned ==
    [ok |-> FALSE, portfolio |-> EmptySeries, benchmark |-> EmptySeries]

\* Index.intersection of two increasing indexes: the labels of a found in b
Intersection(a, b) ==
    LET labels == Range(b)
        found  == Eager([i \in 1..Len(a) |-> a[i] \in labels])
        pos    == Positions(Len(a), found)
    IN  Take(a, pos)

\* Series.iloc[0:len(labels)]: the first values, whatever their labels
LocByPosition(series, labels) ==
    Series(labels, Eager([k \in 1..Len(labels) |-> series.values[k]]))

\* Series.loc[labels]: the values at the labels, in the order of the labels
Loc(series, labels) ==
    Series(labels,
           Eager([k \in 1..Len(labels) |->
               series.values[CHOOSE i \in 1..Len(series.index) :
                                 series.index[i] = labels[k]]]))

\* the threshold test written <= instead of <
align_data_off_by_one(p, b) ==
    LET common_dates == Intersection(p.index, b.index)
    IN  IF Len(common_dates) <= MinOverlap
        THEN NoAligned
        ELSE [ok |-> TRUE,
              portfolio |-> Loc(p, common_dates),
              benchmark |-> Loc(b, common_dates)]

align_data(p, b) ==
    LET common_dates == Intersection(p.index, b.index)
    IN  IF Len(common_dates) < MinOverlap
        THEN NoAligned
        ELSE [ok |-> TRUE,
              portfolio |-> Loc(p, common_dates),
              benchmark |-> Loc(b, common_dates)]

(***************************************************************************)
(* Statistics of pandas and numpy as the analyzer calls them               *)
(***************************************************************************)
TradingDays == 252

\* a value coef * sqrt(radicand); square roots are kept symbolic
Surd(coef, radicand) == [coef |-> coef, radicand |-> radicand]

SurdZero == Surd(Zero, One)

SurdNaN == Surd(NaN, NaN)

\* x ** 2 of a symbolic root
SurdSquare(x) == FMul(FMul(x.coef, x.coef), x.radicand)

\* x == 0 of a symbolic root (NaN == 0 is False)
SurdIsZero(x) ==
    /\ x.coef # NaN /\ x.radicand # NaN
    /\ (x.coef = Zero \/ x.radicand = Zero)
    /\ IsFinite(x.coef) /\ IsFinite(x.radicand)

DropNa(v) ==
    LET ok  == Eager([i \in 1..Len(v) |-> ~IsNaN(v[i])])
        pos == Positions(Len(v), ok)
    IN  Take(v, pos)

\* Series.mean(): missing values are skipped, an empty series gives NaN
Mean(v) ==
    LET x == DropNa(v)
        t == SumSeq(x)
    IN  FDiv(t, Num(Len(x)))

\* sum of (x - mx) * (y - my) over two sequences of one length
SumDev(x, mx, y, my) ==
    LET dev == Eager([i \in 1..Len(x) |->
                   FMul(FSub(x[i], mx), FSub(y[i], my))])
    IN  SumSeq(dev)

\* Series.var(ddof): missing values are skipped
Var(v, ddof) ==
    LET x == DropNa(v)
        m == Mean(x)
        t == SumDev(x, m, x, m)
    IN  IF Len(x) - ddof <= 0 THEN NaN ELSE FDiv(t, Num(Len(x) - ddof))

\* Series.std(): the sample standard deviation, ddof = 1
Std(v) == Surd(One, Var(v, 1))

\* np.var(series): numpy hands its own default ddof = 0 to Series.var
np_var(v) == Var(v, 0)

\* np.cov(x, y)[0, 1]: sample covariance (ddof = 1) of the raw values
np_cov(x, y) ==
    LET n  == Len(x)
        mx == FDiv(SumSeq(x), Num(n))
        my == FDiv(SumSeq(y), Num(n))
        t  == SumDev(x, mx, y, my)
    IN  FDiv(t, Num(IF n - 1 <= 0 THEN 0 ELSE n - 1))

\* np.cov stacks its arguments: different lengths raise ValueError
np_cov_raises(x, y) == Len(x) # Len(y)

RECURSIVE ProdSeq(_)
ProdSeq(s) == IF s = <<>> THEN One ELSE FMul(ProdSeq(Tail(s)), Head(s))

\* (1 + returns).cumprod()
RECURSIVE CumProd(_)
CumProd(v) ==
    IF v = <<>> THEN <<>>
    ELSE LET c    == CumProd(SubSeq(v, 1, Len(v) - 1))
             last == IF c = <<>> THEN One ELSE c[Len(c)]
         IN  Append(c, FMul(last, FAdd(One, v[Len(v)])))

FMax(x, y) == IF FLess(x, y) THEN y ELSE x

FMin(x, y) == IF FLess(y, x) THEN y ELSE x

\* Series.expanding().max(): the largest value so far
RECURSIVE ExpandingMax(_)
ExpandingMax(v) ==
    IF v = <<>> THEN <<>>
    ELSE LET m == ExpandingMax(SubSeq(v, 1, Len(v) - 1))
         IN  Append(m, IF m = <<>> THEN v[Len(v)]
                       ELSE FMax(m[Len(m)], v[Len(v)]))

RECURSIVE MinSeq(_)
MinSeq(s) == IF Len(s) = 1 THEN s[1] ELSE FMin(MinSeq(Tail(s)), Head(s))

RECURSIVE SortedSeq(_)
SortedSeq(S) ==
    IF S = {} THEN <<>>
    ELSE LET m == CHOOSE m \in S : \A o \in S : m <= o
         IN  <<m>> \o SortedSeq(S \ {m})

\* the index of a binary operation on two Series: kept when both agree,
\* else the sorted union of the labels
UnionIndex(a, b) == IF a = b THEN a ELSE SortedSeq(Range(a) \cup Range(b))

ValueAt(series, d) ==
    IF d \in Range(series.index)
    THEN series.values[CHOOSE i \in 1..Len(series.index) : series.index[i] = d]
    ELSE NaN

\* p - b on two Series: aligned on the labels, NaN where one side is missing
SeriesSub(p, b) ==
    LET idx == UnionIndex(p.index, b.index)
    IN  Series(idx, Eager([k \in 1..Len(idx) |->
                        FSub(ValueAt(p, idx[k]), ValueAt(b, idx[k]))]))

\* Series.corr(other): Pearson correlation over the common labels
Corr(p, b) ==
    LET common == Intersection(p.index, b.index)
        x      == Loc(p, common).values
        y      == Loc(b, common).values
        c      == np_cov(x, y)
        d      == FMul(np_cov(x, x), np_cov(y, y))
    IN  IF IsFinite(d) /\ d # Zero /\ IsFinite(c)
        THEN Surd(c, FInv(d))
        ELSE SurdNaN

RECURSIVE InsertSorted(_, _)
InsertSorted(s, x) ==
    IF s = <<>> THEN <<x>>
    ELSE IF FLess(x, Head(s)) THEN <<x>> \o s
         ELSE <<Head(s)>> \o InsertSorted(Tail(s), x)

RECURSIVE SortValues(_)
SortValues(v) ==
    IF v = <<>> THEN <<>> ELSE InsertSorted(SortValues(Tail(v)), Head(v))

\* np.percentile(v, q), linear interpolation between the order statistics
Percentile(v, q) ==
    LET x    == SortValues(v)
        h    == FDiv(Num((Len(x) - 1) * q), Num(100))
        lo   == h[1] \div h[2]
        frac == FSub(h, Num(lo))
    IN  IF lo + 2 > Len(x) THEN x[lo + 1]
        ELSE FAdd(x[lo + 1], FMul(frac, FSub(x[lo + 2], x[lo + 1])))

(***************************************************************************)
(* PortfolioAnalyzer: the metric methods                                   *)
(***************************************************************************)
\* (1 + r) ** (1 / 252) - 1 for the rates of the model; the root of 1.02 is
\* irrational and is given by its rational approximant 1/12725
risk_free_rate_daily(rf) == IF rf = Zero THEN Zero ELSE <<1, 12725>>

\* the sum of the daily returns, without compounding
calculate_total_return_additive(r) == SumSeq(r.values)

calculate_total_return(r) ==
    LET growth == Eager([i \in 1..Len(r.values) |-> FAdd(One, r.values[i])])
    IN  FSub(ProdSeq(growth), One)

calculate_excess_return(p, b) ==
    FSub(calculate_total_return(p), calculate_total_return(b))

calculate_volatility(r) == Surd(One, FMul(Var(r.values, 1), Num(TradingDays)))

\* the ratio without the std() == 0 test
calculate_sharpe_ratio_unguarded(r, rf) ==
    LET excess_returns == Eager([i \in 1..Len(r.values) |->
                              FSub(r.values[i], risk_free_rate_daily(rf))])
    IN  Surd(FMul(Mean(excess_returns), Num(TradingDays)),
             FInv(FMul(Var(r.values, 1), Num(TradingDays))))

calculate_sharpe_ratio(r, rf) ==
    LET excess_returns == Eager([i \in 1..Len(r.values) |->
                              FSub(r.values[i], risk_free_rate_daily(rf))])
        excess_mean    == Mean(excess_returns)
        var            == Var(r.values, 1)
    IN  IF var = Zero THEN SurdZero
        ELSE Surd(FMul(excess_mean, Num(TradingDays)),
                  FInv(FMul(var, Num(TradingDays))))

\* the quotient without the variance == 0 test
calculate_beta_unguarded(p, b) ==
    FDiv(np_cov(p.values, b.values), np_var(b.values))

calculate_beta(p, b) ==
    LET covariance == np_cov(p.values, b.values)
        variance   == np_var(b.values)
    IN  IF variance = Zero THEN Zero ELSE FDiv(covariance, variance)

calculate_alpha(p, b, rf) ==
    LET beta                    == calculate_beta(p, b)
        portfolio_annual_return == FMul(Mean(p.values), Num(TradingDays))
        benchmark_annual_return == FMul(Mean(b.values), Num(TradingDays))
    IN  FSub(portfolio_annual_return,
             FAdd(rf, FMul(beta, FSub(benchmark_annual_return, rf))))

calculate_correlation(p, b) == Corr(p, b)

\* the correlation with its covariance left unsquared
calculate_r_squared_unsquared(p, b) ==
    LET c == calculate_correlation(p, b)
    IN  FMul(c.coef, c.radicand)

calculate_r_squared(p, b) == SurdSquare(calculate_correlation(p, b))

calculate_tracking_error(p, b) ==
    LET excess_returns == SeriesSub(p, b)
    IN  Surd(One, FMul(Var(excess_returns.values, 1), Num(TradingDays)))

\* the ratio without the tracking_error == 0 test
calculate_information_ratio_unguarded(p, b) ==
    LET excess_returns == SeriesSub(p, b)
        tracking_error == calculate_tracking_error(p, b)
    IN  Surd(FMul(Mean(excess_returns.values), Num(TradingDays)),
             FInv(tracking_error.radicand))

calculate_information_ratio(p, b) ==
    LET excess_returns == SeriesSub(p, b)
        tracking_error == calculate_tracking_error(p, b)
    IN  IF SurdIsZero(tracking_error) THEN SurdZero
        ELSE Surd(FMul(Mean(excess_returns.values), Num(TradingDays)),
                  FInv(tracking_error.radicand))

\* the drawdown measured from the first value instead of the running peak
calculate_max_drawdown_from_start(r) ==
    LET cumulative == CumProd(r.values)
        drawdown   == Eager([i \in 1..Len(cumulative) |->
                          FDiv(FSub(cumulative[i], cumulative[1]),
                               cumulative[1])])
    IN  IF drawdown = <<>> THEN NaN ELSE MinSeq(drawdown)

calculate_max_drawdown(r) ==
    LET cumulative  == CumProd(r.values)
        running_max == ExpandingMax(cumulative)
        drawdown    == Eager([i \in 1..Len(cumulative) |->
                           FDiv(FSub(cumulative[i], running_max[i]),
                                running_max[i])])
    IN  IF drawdown = <<>> THEN NaN ELSE MinSeq(drawdown)

\* (1 - confidence_level) * 100 is 5 for 0.95 and 1 for 0.99
calculate_var(r, percent) == Percentile(r.values, percent)

\* mean of p over the periods selected by the benchmark, over the same mean
\* of b; 0 without such a period or with a benchmark mean of 0
Capture(p, b, periods) ==
    LET pos == Positions(Len(b.values), periods)
        pm  == Mean(Take(p.values, pos))
        bm  == Mean(Take(b.values, pos))
    IN  IF pos = <<>> THEN Zero
        ELSE IF bm = Zero THEN Zero ELSE FDiv(pm, bm)

\* up periods taken as benchmark_returns >= 0
calculate_up_capture_inclusive(p, b) ==
    LET up_periods == Eager([i \in 1..Len(b.values) |->
                          ~FLess(b.values[i], Zero)])
    IN  Capture(p, b, up_periods)

calculate_up_capture(p, b) ==
    LET up_periods == Eager([i \in 1..Len(b.values) |->
                          FLess(Zero, b.values[i])])
    IN  Capture(p, b, up_periods)

calculate_down_capture(p, b) ==
    LET down_periods == Eager([i \in 1..Len(b.values) |->
                            FLess(b.values[i], Zero)])
    IN  Capture(p, b, down_periods)

\* the ratio over the signed drawdown, without abs()
calculate_calmar_ratio_signed(r) ==
    LET total_return == calculate_total_return(r)
        max_drawdown == calculate_max_drawdown(r)
    IN  IF max_drawdown = Zero THEN Zero
        ELSE FDiv(total_return, max_drawdown)

calculate_calmar_ratio(r) ==
    LET total_return == calculate_total_return(r)
        md           == calculate_max_drawdown(r)
        max_drawdown == IF FLess(md, Zero) THEN FNeg(md) ELSE md
    IN  IF max_drawdown = Zero THEN Zero
        ELSE FDiv(total_return, max_drawdown)

calculate_cumulative_returns(p, b) ==
    [index |-> p.index,
     data  |-> [c \in {"Portfolio", "Benchmark"} |->
                   IF c = "Portfolio" THEN CumProd(p.values)
                   ELSE CumProd(b.values)]]

(***************************************************************************)
(* PortfolioAnalyzer.analyze_portfolio_vs_benchmark                        *)
(***************************************************************************)
ResultKeys ==
    {"portfolio_name", "benchmark_name", "analysis_date", "data_points",
     "start_date", "end_date", "weights_used",
     "portfolio_total_return", "benchmark_total_return", "excess_return",
     "portfolio_volatility", "benchmark_volatility",
     "portfolio_sharpe_ratio", "benchmark_sharpe_ratio",
     "alpha", "beta", "correlation", "r_squared", "tracking_error",
     "information_ratio", "max_drawdown", "var_95", "var_99",
     "up_capture", "down_capture", "calmar_ratio",
     "portfolio_returns", "benchmark_returns", "cumulative_returns"}

EmptyDict == <<>>

\* label.strftime("%Y-%m-%d"): the rendering of a day
Strftime(d) == <<"%Y-%m-%d", d>>

\* only datetime labels have strftime; any other label raises AttributeError
StrftimeRaises(ik) == ik # "datetime"

\* weights if weights else 'equal-weighted': None and {} are both falsy
WeightsUsed(w) ==
    IF w.given /\ DOMAIN w.map # {}
    THEN [label |-> "custom", map |-> w.map]
    ELSE [label |-> "equal-weighted", map |-> <<>>]

\* the dict literal of lines 59-101
ResultsDict(p, b, w, rf, now) ==
    [portfolio_name         |-> "Portfolio",
     benchmark_name         |-> "Benchmark",
     analysis_date          |-> Strftime(now),
     data_points            |-> Len(p.values),
     start_date             |-> Strftime(p.index[1]),
     end_date               |-> Strftime(p.index[Len(p.index)]),
     weights_used           |-> WeightsUsed(w),
     portfolio_total_return |-> calculate_total_return(p),
     benchmark_total_return |-> calculate_total_return(b),
     excess_return          |-> calculate_excess_return(p, b),
     portfolio_volatility   |-> calculate_volatility(p),
     benchmark_volatility   |-> calculate_volatility(b),
     portfolio_sharpe_ratio |-> calculate_sharpe_ratio(p, rf),
     benchmark_sharpe_ratio |-> calculate_sharpe_ratio(b, rf),
     alpha                  |-> calculate_alpha(p, b, rf),
     beta                   |-> calculate_beta(p, b),
     correlation            |-> calculate_correlation(p, b),
     r_squared              |-> calculate_r_squared(p, b),
     tracking_error         |-> calculate_tracking_error(p, b),
     information_ratio      |-> calculate_information_ratio(p, b),
     max_drawdown           |-> calculate_max_drawdown(p),
     var_95                 |-> calculate_var(p, 5),
     var_99                 |-> calculate_var(p, 1),
     up_capture             |-> calculate_up_capture(p, b),
     down_capture           |-> calculate_down_capture(p, b),
     calmar_ratio           |-> calculate_calmar_ratio(p),
     portfolio_returns      |-> p,
     benchmark_returns      |-> b,
     cumulative_returns     |-> calculate_cumulative_returns(p, b)]

\* except ValueError: any other exception leaves the call
CaughtValueErrorOnly(exc) == exc = "ValueError"

\* except Exception (line 105): every exception raised in the body is caught
Caught(exc) == TRUE

\* the exception raised while the dict is built, "none" when there is none
BodyException(ik) == IF StrftimeRaises(ik) THEN "AttributeError" ELSE "none"

\* the value returned: {} when alignment gave None or the body raised
analyze_portfolio_vs_benchmark(al, w, rf, ik, now) ==
    IF ~al.ok THEN EmptyDict
    ELSE IF BodyException(ik) # "none" THEN EmptyDict
    ELSE ResultsDict(al.portfolio, al.benchmark, w, rf, now)

\* the exception that leaves the call, "none" when it returns
Escapes(al, ik) ==
    IF al.ok /\ BodyException(ik) # "none" /\ ~Caught(BodyException(ik))
    THEN BodyException(ik)
    ELSE "none"

(***************************************************************************)
(* core/data_service.py: YahooFinanceService and safe_data_fetch           *)
(***************************************************************************)
max_retries == 3

\* what ticker.history(period) can give: a frame with rows, a frame with
\* rows but no Close column, an empty frame, or an exception
Responses == {"data", "no_close", "empty", "error"}

\* not data.empty
NonEmpty(response) == response \in {"data", "no_close"}

\* the pass that waits after every failed attempt, the last one included
get_stock_data_pass_always_sleeps(att, response) ==
    IF NonEmpty(response)
    THEN [returns |-> TRUE, value |-> response, sleeps |-> FALSE]
    ELSE [returns |-> FALSE, value |-> "None", sleeps |-> TRUE]

\* one pass of the loop of get_stock_data, given the response: non-empty
\* data is returned; empty data and an exception are handled alike
get_stock_data_pass(att, response) ==
    IF NonEmpty(response)
    THEN [returns |-> TRUE, value |-> response, sleeps |-> FALSE]
    ELSE IF att < max_retries - 1
         THEN [returns |-> FALSE, value |-> "None", sleeps |-> TRUE]
         ELSE [returns |-> TRUE, value |-> "None", sleeps |-> FALSE]

\* validate_symbol: the info lookup shows a price, or else one month of
\* history is not empty; an exception of either request gives False
validate_symbol(info, history) == info = "price" \/ history = "data"

\* a table is [kind, columns, empty]; kind tells it from None
NoPortfolioData == [kind |-> "DataFrame", columns |-> {}, empty |-> TRUE]

NoneTable == [kind |-> "None", columns |-> {}, empty |-> TRUE]

NotReturned ==
    [portfolio |-> [kind |-> "pending", columns |-> {}, empty |-> TRUE],
     benchmark |-> "pending"]

NoneNone == [portfolio |-> NoneTable, benchmark |-> "None"]

\* the tests after the two fetches that let a missing benchmark through
attempt_outcome_portfolio_only(frame, benchmark_data, raised) ==
    IF raised \/ frame.empty THEN "failed" ELSE "fetched"

\* lines 280-307: the attempt fails on an exception, an empty portfolio
\* table or a missing benchmark series
attempt_outcome(frame, benchmark_data, raised) ==
    IF raised THEN "failed"
    ELSE IF frame.empty THEN "failed"
    ELSE IF benchmark_data = "None" THEN "failed"
    ELSE "fetched"

(***************************************************************************)
(* PortfolioAnalyzer.format_results                                        *)
(***************************************************************************)
RECURSIVE Pow10(_)
Pow10(k) == IF k = 0 THEN 1 ELSE 10 * Pow10(k - 1)

\* round(x, ndigits) of a float: the nearest multiple of 10 ** -ndigits,
\* a tie going to the even one; nan and the infinities come back unchanged
Round(x, ndigits) ==
    IF ~IsFinite(x) THEN x
    ELSE LET scale == Pow10(ndigits)
             n     == x[1] * scale
             q     == n \div x[2]
             r     == n - q * x[2]
             up    == 2 * r > x[2] \/ (2 * r = x[2] /\ q % 2 = 1)
         IN  Norm(IF up THEN q + 1 ELSE q, scale)

PercentageFields ==
    {"portfolio_total_return", "benchmark_total_return", "excess_return",
     "portfolio_volatility", "benchmark_volatility", "alpha",
     "tracking_error", "max_drawdown", "var_95", "var_99"}

DecimalFields ==
    {"portfolio_sharpe_ratio", "benchmark_sharpe_ratio", "beta",
     "correlation", "r_squared", "information_ratio",
     "up_capture", "down_capture", "calmar_ratio"}

\* the value stored under one key by the two loops
FormatField(field, value) ==
    IF field \in PercentageFields THEN Round(FMul(value, Num(100)), 2)
    ELSE IF field \in DecimalFields THEN Round(value, 4)
    ELSE value

\* the loops run on the argument itself (formatted = results, no copy)
format_results_in_place(r) ==
    LET out == IF r = EmptyDict THEN EmptyDict
               ELSE [field \in DOMAIN r |-> FormatField(field, r[field])]
    IN  [formatted |-> out, results |-> out]

\* the dict returned, and the argument as the call leaves it: the loops
\* assign into the copy
format_results(r) ==
    [formatted |-> IF r = EmptyDict THEN EmptyDict
                   ELSE [field \in DOMAIN r |-> FormatField(field, r[field])],
     results   |-> r]

(***************************************************************************)
(* ui/dashboard.py: BenchmarkDashboard.  Handlers run one at a time on     *)
(* the Tk event loop; a dialog a handler shows is dismissed before the     *)
(* next handler runs.  Time is counted in ticks of 100 ms.                 *)
(***************************************************************************)
\* root.after(500, ...) and root.after(100, ...), in ticks
RefreshDelay == 5

AnalysisDelay == 1

\* the text of the portfolio entry is the sequence of its comma-separated
\* fields, of which every text has at least one: " ", " A" or "B"

\* field.strip()
Strip(field) ==
    IF field = " " THEN "" ELSE IF field = " A" THEN "A" ELSE field

\* [s.strip() for s in text.split(',') if s.strip()]
ParseSymbols(text) ==
    SelectSeq([i \in 1..Len(text) |-> Strip(text[i])], LAMBDA s : s # "")

\* not portfolio_entry.get().strip(): a text with a comma is not blank
BlankText(text) == Len(text) = 1 /\ Strip(text[1]) = ""

\* the text of a weight entry: empty, a number, or a word; the user
\* types a word or a number
NumberText(x) == [kind |-> "number", value |-> x]

EmptyText == [kind |-> "empty", value |-> Zero]

TypedWeights ==
    {[kind |-> "word", value |-> Zero], NumberText(Num(100))}

\* float(entry.get() or 0), 0 on ValueError
TypedValue(typed) == IF typed.kind = "number" THEN typed.value ELSE Zero

\* f"{equal_weight:.1f}" as the text of a weight entry
OneDecimal(x) == NumberText(Round(x, 1))

NoWeightEntries == [texts |-> <<>>, destroyed |-> FALSE]

\* the label set by update_weight_validation
update_weight_validation(text, stored) ==
    LET current_symbols == ParseSymbols(text)
        total_weight ==
            SumSeq([i \in 1..Len(current_symbols) |->
                       IF current_symbols[i] \in DOMAIN stored
                       THEN stored[current_symbols[i]] ELSE Zero])
        off == FSub(total_weight, Num(100))
    IN  IF current_symbols = <<>> \/ DOMAIN stored = {} THEN ""
        ELSE IF FLess(off, <<1, 10>>) /\ FLess(<<-1, 10>>, off) THEN "valid"
        ELSE IF total_weight = Zero THEN "none"
        ELSE "invalid"

\* create_weight_inputs: the widgets are destroyed and, when the entry has
\* symbols, made anew with 100 / len(symbols) per symbol
create_weight_inputs(text, entries) ==
    LET syms         == ParseSymbols(text)
        equal_weight == FDiv(Num(100), Num(Len(syms)))
        stored       == [s \in Range(syms) |-> equal_weight]
    IN  IF syms = <<>>
        THEN [portfolio_weights |-> <<>>,
              weight_entries    |-> [entries EXCEPT !.destroyed = TRUE],
              label             |-> update_weight_validation(text, <<>>)]
        ELSE [portfolio_weights |-> stored,
              weight_entries    |->
                  [texts     |-> [s \in Range(syms) |->
                                     OneDecimal(equal_weight)],
                   destroyed |-> FALSE],
              label             |-> update_weight_validation(text, stored)]

\* get_portfolio_weights: the stored weights / 100 when they total 100
\* within 0.1, else 1 / len(symbols) for every symbol of the entry
get_portfolio_weights(stored, text) ==
    LET total_weight == SumOver(DOMAIN stored, stored)
        off          == FSub(total_weight, Num(100))
        syms         == ParseSymbols(text)
    IN  IF /\ FLess(off, <<1, 10>>) /\ FLess(<<-1, 10>>, off)
           /\ FLess(Zero, total_weight)
        THEN [s \in DOMAIN stored |-> FDiv(stored[s], Num(100))]
        ELSE [s \in Range(syms) |-> FDiv(One, Num(Len(syms)))]

\* root.after(ms, callback): a new timer under a fresh id
After(pending, id, delay, callback, args) ==
    pending \cup {[id |-> id, due |-> delay, callback |-> callback,
                   symbols |-> args]}

\* root.after_cancel(id): nothing happens when the timer has fired
AfterCancel(pending, id) == {t \in pending : t.id # id}

\* on_portfolio_change without the after_cancel
on_portfolio_change_no_cancel(pending, previous, id) ==
    [timers                 |-> After(pending, id, RefreshDelay,
                                      "refresh_weight_inputs", <<>>),
     portfolio_change_timer |-> id]

\* on_portfolio_change: the timer scheduled before, if any, is cancelled
\* and a refresh is scheduled 500 ms ahead
on_portfolio_change(pending, previous, id) ==
    [timers                 |->
         After(IF previous # 0 THEN AfterCancel(pending, previous)
               ELSE pending,
               id, RefreshDelay, "refresh_weight_inputs", <<>>),
     portfolio_change_timer |-> id]

\* analyze_portfolio that disables the button before it validates
analyze_portfolio_disables_first(text) ==
    IF BlankText(text)
    THEN [started |-> FALSE, analyze_button |-> "disabled",
          progress |-> "started",
          message |-> "Please enter portfolio symbols"]
    ELSE IF ParseSymbols(text) = <<>>
    THEN [started |-> FALSE, analyze_button |-> "disabled",
          progress |-> "started",
          message |-> "Please enter valid portfolio symbols"]
    ELSE [started |-> TRUE, analyze_button |-> "disabled",
          progress |-> "started", message |-> ""]

\* analyze_portfolio up to the scheduling of run_analysis
analyze_portfolio(text) ==
    IF BlankText(text)
    THEN [started |-> FALSE, analyze_button |-> "normal",
          progress |-> "stopped",
          message |-> "Please enter portfolio symbols"]
    ELSE IF ParseSymbols(text) = <<>>
    THEN [started |-> FALSE, analyze_button |-> "normal",
          progress |-> "stopped",
          message |-> "Please enter valid portfolio symbols"]
    ELSE [started |-> TRUE, analyze_button |-> "disabled",
          progress |-> "started", message |-> ""]

\* what one run of run_analysis meets: safe_data_fetch gives (None, None),
\* an exception is raised before the store, the analysis returns {}, the
\* display raises after the store, or all goes well
Outcomes ==
    {"fetch_failed", "exception", "empty_result", "display_exception",
     "success"}

\* the try block that stores the result before it tests it
run_analysis_stores_first(met, stored_results, new_results) ==
    IF met = "fetch_failed"
    THEN [current_results |-> stored_results,
          message |-> "Failed to fetch data"]
    ELSE IF met = "exception"
    THEN [current_results |-> stored_results, message |-> "Analysis failed"]
    ELSE IF met = "empty_result"
    THEN [current_results |-> EmptyDict, message |-> "Analysis failed"]
    ELSE IF met = "display_exception"
    THEN [current_results |-> new_results, message |-> "Analysis failed"]
    ELSE [current_results |-> new_results,
          message |-> "Analysis completed successfully!"]

\* the try block of run_analysis: current_results and the dialog shown
run_analysis(met, stored_results, new_results) ==
    IF met = "fetch_failed"
    THEN [current_results |-> stored_results,
          message |-> "Failed to fetch data"]
    ELSE IF met \in {"exception", "empty_result"}
    THEN [current_results |-> stored_results, message |-> "Analysis failed"]
    ELSE IF met = "display_exception"
    THEN [current_results |-> new_results, message |-> "Analysis failed"]
    ELSE [current_results |-> new_results,
          message |-> "Analysis completed successfully!"]

\* on_weight_change: every entry is read again
on_weight_change(stored, texts) ==
    [s \in DOMAIN stored \cup DOMAIN texts |->
        IF s \in DOMAIN texts THEN TypedValue(texts[s]) ELSE stored[s]]

\* set_equal_weights: 100 / len(symbols) is stored for the symbols in turn
\* and written to the entry of each; writing to a destroyed entry raises
\* TclError, which ends the handler there
set_equal_weights(text, stored, entries) ==
    LET syms         == ParseSymbols(text)
        equal_weight == FDiv(Num(100), Num(Len(syms)))
        broken       == {i \in 1..Len(syms) :
                            /\ entries.destroyed
                            /\ syms[i] \in DOMAIN entries.texts}
        reached      == IF broken = {} THEN Len(syms)
                        ELSE CHOOSE i \in broken : \A j \in broken : i <= j
        set          == {syms[i] : i \in 1..reached}
        weights_set  == [s \in DOMAIN stored \cup set |->
                            IF s \in set THEN equal_weight ELSE stored[s]]
    IN  IF syms = <<>>
        THEN [portfolio_weights |-> stored, weight_entries |-> entries,
              relabel |-> FALSE,
              message |-> "Please enter portfolio symbols first"]
        ELSE IF broken # {}
        THEN [portfolio_weights |-> weights_set, weight_entries |-> entries,
              relabel |-> FALSE, message |-> "TclError"]
        ELSE [portfolio_weights |-> weights_set,
              weight_entries    |->
                  [entries EXCEPT !.texts =
                      [s \in DOMAIN entries.texts |->
                          IF s \in set THEN OneDecimal(equal_weight)
                          ELSE entries.texts[s]]],
              relabel |-> TRUE, message |-> ""]

\* clear_weights: the entries are emptied, then the stored weights dropped
clear_weights(stored, entries) ==
    IF entries.destroyed /\ DOMAIN entries.texts # {}
    THEN [portfolio_weights |-> stored, weight_entries |-> entries,
          relabel |-> FALSE, message |-> "TclError"]
    ELSE [portfolio_weights |-> <<>>,
          weight_entries    |->
              [entries EXCEPT !.texts =
                  [s \in DOMAIN entries.texts |-> EmptyText]],
          relabel |-> TRUE,
          message |-> "Weights cleared. Analysis will use equal weighting."]

(***************************************************************************)
(* Inputs                                                                  *)
(***************************************************************************)
NumDates == 3

Symbols == {"A", "B"}

WeightSymbols == Symbols \cup {"C"}

WeightValues == {<<-1, 2>>, <<1, 2>>, <<3, 2>>}

\* instrument A may lack a price on a day, instrument B is always quoted
PriceCells(c) == IF c = "A" THEN {Num(1), Num(2), NaN} ELSE {Num(1), Num(2)}

\* weight mappings; a symbol outside the price table carries weight 1/2
WeightMaps ==
    {m \in UNION {[S -> WeightValues] : S \in SUBSET WeightSymbols} :
        \A s \in DOMAIN m \ Symbols : m[s] = <<1, 2>>}

NoWeights == [given |-> FALSE, map |-> <<>>]

DateIndex(n) == [i \in 1..n |-> i]

NoFrame == [index |-> <<>>, data |-> <<>>]

NoCall == [fn |-> "", raised |-> "", value |-> NaN]

\* no result has been formatted yet
FormatIdle == formatted = <<>>

\* safe_data_fetch has not been called
ServiceIdle ==
    /\ symbols = <<>>
    /\ valid_symbols = <<>>
    /\ target = 1
    /\ fetch_attempt = -1
    /\ portfolio_data = NoPortfolioData
    /\ fetched = NotReturned
    /\ svc_pc = "idle"
    /\ attempt = 0
    /\ stock_log = <<>>
    /\ stock_data = "idle"

\* no window has been made
DashboardIdle ==
    /\ entry = <<>>
    /\ portfolio_weights = <<>>
    /\ weight_entries = <<>>
    /\ weight_validation_label = ""
    /\ analyze_button = "normal"
    /\ progress = "stopped"
    /\ timers = {}
    /\ portfolio_change_timer = 0
    /\ current_results = <<>>
    /\ ran = <<>>
    /\ burst = <<>>

OutsideAnalyzerIdle == FormatIdle /\ ServiceIdle /\ DashboardIdle

(***************************************************************************)
(* SpecReturns: _calculate_portfolio_returns applied to small price tables *)
(***************************************************************************)
InitReturns ==
    /\ portfolio_prices \in
          {[index |-> DateIndex(NumDates), data |-> d] :
              d \in {[c \in Symbols |-> IF c = "A" THEN a ELSE b] :
                        a \in [1..NumDates -> PriceCells("A")],
                        b \in [1..NumDates -> PriceCells("B")]}}
    /\ weights \in {NoWeights} \cup
          {[given |-> TRUE, map |-> m] : m \in WeightMaps}
    /\ fill_method \in {"pad", "none"}
    /\ benchmark_prices = EmptySeries
    /\ index_kind = "datetime"
    /\ risk_free_rate = Zero
    /\ pc = "start"
    /\ portfolio_returns = EmptySeries
    /\ benchmark_returns = EmptySeries
    /\ aligned_data = NoAligned
    /\ results = <<>>
    /\ call = NoCall
    /\ today = 0
    /\ OutsideAnalyzerIdle

CalculatePortfolioReturns ==
    /\ pc = "start"
    /\ portfolio_returns' =
          calculate_portfolio_returns(portfolio_prices, weights, fill_method)
    /\ pc' = "returned"
    /\ UNCHANGED <<portfolio_prices, benchmark_prices, weights, fill_method,
                   index_kind, risk_free_rate, benchmark_returns, aligned_data,
                   results, call, today, outsideAnalyzer>>

NextReturns == CalculatePortfolioReturns

SpecReturns == InitReturns /\ [][NextReturns]_vars

(***************************************************************************)
(* Spec: analyze_portfolio_vs_benchmark called, and called once more, on    *)
(* price histories of about MinOverlap days                                *)
(***************************************************************************)
MaxDate == 32

\* the trading days lo..hi, without the day hole (0: no day is missing)
DateRanges(holes) ==
    {SortedSeq((lo..hi) \ {hole}) :
        lo \in 1..2, hi \in (MaxDate - 1)..MaxDate, hole \in holes}

\* price of a series on day d: kind 1 rises on day 5, kind 2 rises on day 5
\* and falls back on day 20, kind 3 is flat
PriceOn(kind, d) ==
    IF kind = 1 THEN Num(IF d < 5 THEN 1 ELSE 2)
    ELSE IF kind = 2 THEN Num(IF d < 5 \/ d >= 20 THEN 1 ELSE 2)
    ELSE Num(2)

PriceFrame(idx, ka, kb) ==
    [index |-> idx,
     data  |-> [c \in Symbols |->
                   [i \in 1..Len(idx) |->
                       PriceOn(IF c = "A" THEN ka ELSE kb, idx[i])]]]

PriceSeries(idx, k) == Series(idx, [i \in 1..Len(idx) |-> PriceOn(k, idx[i])])

Init ==
    /\ portfolio_prices \in
          {PriceFrame(idx, k[1], k[2]) :
              idx \in DateRanges({0, 10}), k \in {<<1, 3>>, <<2, 2>>}}
    /\ benchmark_prices \in
          {PriceSeries(idx, 2) : idx \in DateRanges({0})}
    /\ weights \in {NoWeights,
                    [given |-> TRUE, map |-> <<>>],
                    [given |-> TRUE,
                     map |-> [c \in Symbols |->
                                 IF c = "A" THEN Num(1) ELSE Num(3)]]}
    /\ fill_method = "pad"
    /\ index_kind \in {"datetime", "other"}
    /\ risk_free_rate = <<1, 50>>
    /\ today = MaxDate + 1
    /\ pc = "start"
    /\ portfolio_returns = EmptySeries
    /\ benchmark_returns = EmptySeries
    /\ aligned_data = NoAligned
    /\ results = EmptyDict
    /\ call = NoCall
    /\ OutsideAnalyzerIdle

\* one call; a second call on the same arguments may follow the first
AnalyzePortfolioVsBenchmark ==
    /\ pc \in {"start", "done"}
    /\ LET pr == calculate_portfolio_returns(portfolio_prices, weights,
                                             fill_method)
           br == SeriesReturns(benchmark_prices, fill_method)
           al == align_data(pr, br)
       IN  /\ aligned_data' = al
           /\ portfolio_returns' = IF al.ok THEN al.portfolio ELSE pr
           /\ benchmark_returns' = IF al.ok THEN al.benchmark ELSE br
           /\ results' = analyze_portfolio_vs_benchmark(
                             al, weights, risk_free_rate, index_kind, today)
           /\ call' = [fn      |-> "analyze_portfolio_vs_benchmark",
                       raised  |-> Escapes(al, index_kind),
                       value   |-> NaN,
                       day     |-> today,
                       earlier |-> results]
    /\ pc' = IF pc = "start" THEN "done" ELSE "again"
    /\ UNCHANGED <<portfolio_prices, benchmark_prices, weights, fill_method,
                   index_kind, risk_free_rate, today, outsideAnalyzer>>

\* between the two calls the system clock passes midnight: datetime.now()
\* falls on the next day
Midnight ==
    /\ pc = "done"
    /\ today = MaxDate + 1
    /\ today' = today + 1
    /\ UNCHANGED <<portfolio_prices, benchmark_prices, weights, fill_method,
                   index_kind, risk_free_rate, pc, portfolio_returns,
                   benchmark_returns, aligned_data, results, call,
                   outsideAnalyzer>>

Next ==
    \/ AnalyzePortfolioVsBenchmark
    \/ Midnight

Spec == Init /\ [][Next]_vars

(***************************************************************************)
(* SpecMetrics: the metric methods called on short return series, aligned  *)
(* or not                                                                  *)
(***************************************************************************)
MaxLen == 3

ReturnValues == {<<-1, 2>>, Zero, Num(1)}

\* the return series of at most MaxLen days that start on day first
ShortSeries(first) ==
    UNION {{Series([i \in 1..m |-> first + i - 1], v) :
               v \in [1..m -> ReturnValues]} : m \in 0..MaxLen}

\* _calculate_beta raises what np.cov raises
beta_raises(p, b) ==
    IF np_cov_raises(p.values, b.values) THEN "ValueError" ELSE "none"

\* _calculate_alpha calls _calculate_beta first
alpha_raises(p, b) == beta_raises(p, b)

\* Series subtraction and std() accept any two Series
tracking_error_raises(p, b) == "none"

InitMetrics ==
    /\ portfolio_returns \in ShortSeries(1)
    /\ benchmark_returns \in ShortSeries(1) \cup ShortSeries(2)
    /\ risk_free_rate \in {Zero, <<1, 50>>}
    /\ portfolio_prices = NoFrame
    /\ benchmark_prices = EmptySeries
    /\ weights = NoWeights
    /\ fill_method = "pad"
    /\ index_kind = "datetime"
    /\ pc = "start"
    /\ aligned_data = NoAligned
    /\ results = EmptyDict
    /\ call = NoCall
    /\ today = 0
    /\ OutsideAnalyzerIdle

MetricFrame ==
    UNCHANGED <<portfolio_prices, benchmark_prices, weights, fill_method,
                index_kind, risk_free_rate, portfolio_returns,
                benchmark_returns, aligned_data, results, today,
                outsideAnalyzer>>

CalculateBeta ==
    /\ pc = "start"
    /\ call' = [fn     |-> "beta",
                raised |-> beta_raises(portfolio_returns, benchmark_returns),
                value  |-> IF beta_raises(portfolio_returns,
                                          benchmark_returns) = "none"
                           THEN calculate_beta(portfolio_returns,
                                               benchmark_returns)
                           ELSE NaN]
    /\ pc' = "done"
    /\ MetricFrame

CalculateAlpha ==
    /\ pc = "start"
    /\ call' = [fn     |-> "alpha",
                raised |-> alpha_raises(portfolio_returns, benchmark_returns),
                value  |-> IF alpha_raises(portfolio_returns,
                                           benchmark_returns) = "none"
                           THEN calculate_alpha(portfolio_returns,
                                                benchmark_returns,
                                                risk_free_rate)
                           ELSE NaN]
    /\ pc' = "done"
    /\ MetricFrame

CalculateTrackingError ==
    /\ pc = "start"
    /\ call' = [fn     |-> "tracking_error",
                raised |-> tracking_error_raises(portfolio_returns,
                                                 benchmark_returns),
                value  |-> calculate_tracking_error(portfolio_returns,
                                                    benchmark_returns)]
    /\ pc' = "done"
    /\ MetricFrame

NextMetrics ==
    \/ CalculateBeta
    \/ CalculateAlpha
    \/ CalculateTrackingError

SpecMetrics == InitMetrics /\ [][NextMetrics]_vars

(***************************************************************************)
(* ChartMaker.create_rolling_metrics_chart: the rolling loop               *)
(***************************************************************************)
\* Series.iloc[lo:hi] with 0 <= lo <= hi <= len (rows lo+1..hi, counted from 1)
ILoc(series, lo, hi) ==
    Series(SubSeq(series.index, lo + 1, hi), SubSeq(series.values, lo + 1, hi))

\* the beta of one window: covariance / variance if variance != 0 else 0
window_beta(wp, wb) ==
    LET covariance == np_cov(wp.values, wb.values)
        variance   == np_var(wb.values)
    IN  IF variance # Zero THEN FDiv(covariance, variance) ELSE Zero

\* the loop with windows that end at position i itself, iloc[i-window+1:i+1]
rolling_metrics_through_i(p, b, window) ==
    LET n == Len(p.values)
    IN  Eager([k \in 1..(IF n > window THEN n - window ELSE 0) |->
            LET i                == window + k - 1
                window_portfolio == ILoc(p, i - window + 1, i + 1)
                window_benchmark == ILoc(b, i - window + 1, i + 1)
            IN  [date        |-> p.index[i + 1],
                 beta        |-> window_beta(window_portfolio,
                                             window_benchmark),
                 correlation |-> Corr(window_portfolio, window_benchmark)]])

\* for i in range(window, len(portfolio_returns)): one row per position i,
\* from the window rows before it
rolling_metrics(p, b, window) ==
    LET n == Len(p.values)
    IN  Eager([k \in 1..(IF n > window THEN n - window ELSE 0) |->
            LET i                == window + k - 1
                window_portfolio == ILoc(p, i - window, i)
                window_benchmark == ILoc(b, i - window, i)
            IN  [date        |-> p.index[i + 1],
                 beta        |-> window_beta(window_portfolio,
                                             window_benchmark),
                 correlation |-> Corr(window_portfolio, window_benchmark)]])

(***************************************************************************)
(* SpecAligned: the metric methods and the rolling loop on two aligned     *)
(* return series, as analyze_portfolio_vs_benchmark hands them over        *)
(***************************************************************************)
MaxDays == 3

\* aligned series of one length on the days 1..m; the analysis aligns at
\* least MinOverlap days, the model keeps at least the two days that the
\* sample deviation needs
AlignedPairs ==
    UNION {{<<Series(DateIndex(m), x), Series(DateIndex(m), y)>> :
               x \in [1..m -> ReturnValues \ {Zero}],
               y \in [1..m -> ReturnValues]} :
           m \in 2..MaxDays}

InitAligned ==
    /\ \E pair \in AlignedPairs :
           /\ portfolio_returns = pair[1]
           /\ benchmark_returns = pair[2]
    /\ risk_free_rate \in {Zero, <<1, 50>>}
    /\ portfolio_prices = NoFrame
    /\ benchmark_prices = EmptySeries
    /\ weights = NoWeights
    /\ fill_method = "pad"
    /\ index_kind = "datetime"
    /\ pc = "start"
    /\ aligned_data = NoAligned
    /\ results = EmptyDict
    /\ call = NoCall
    /\ today = 0
    /\ OutsideAnalyzerIdle

CalculateTotalReturn ==
    /\ pc = "start"
    /\ call' = [fn     |-> "total_return",
                raised |-> "none",
                value  |-> calculate_total_return(portfolio_returns)]
    /\ pc' = "done"
    /\ MetricFrame

CalculateExcessReturn ==
    /\ pc = "start"
    /\ call' = [fn     |-> "excess_return",
                raised |-> "none",
                value  |-> calculate_excess_return(portfolio_returns,
                                                   benchmark_returns)]
    /\ pc' = "done"
    /\ MetricFrame

CalculateCumulativeReturns ==
    /\ pc = "start"
    /\ call' = [fn     |-> "cumulative_returns",
                raised |-> "none",
                value  |-> calculate_cumulative_returns(portfolio_returns,
                                                        benchmark_returns)]
    /\ pc' = "done"
    /\ MetricFrame

CalculateSharpeRatio ==
    /\ pc = "start"
    /\ call' = [fn     |-> "sharpe_ratio",
                raised |-> "none",
                value  |-> calculate_sharpe_ratio(portfolio_returns,
                                                  risk_free_rate)]
    /\ pc' = "done"
    /\ MetricFrame

CalculateCorrelation ==
    /\ pc = "start"
    /\ call' = [fn     |-> "correlation",
                raised |-> "none",
                value  |-> calculate_correlation(portfolio_returns,
                                                 benchmark_returns)]
    /\ pc' = "done"
    /\ MetricFrame

CalculateRSquared ==
    /\ pc = "start"
    /\ call' = [fn     |-> "r_squared",
                raised |-> "none",
                value  |-> calculate_r_squared(portfolio_returns,
                                               benchmark_returns)]
    /\ pc' = "done"
    /\ MetricFrame

CalculateInformationRatio ==
    /\ pc = "start"
    /\ call' = [fn     |-> "information_ratio",
                raised |-> "none",
                value  |-> calculate_information_ratio(portfolio_returns,
                                                       benchmark_returns)]
    /\ pc' = "done"
    /\ MetricFrame

CalculateMaxDrawdown ==
    /\ pc = "start"
    /\ call' = [fn     |-> "max_drawdown",
                raised |-> "none",
                value  |-> calculate_max_drawdown(portfolio_returns)]
    /\ pc' = "done"
    /\ MetricFrame

CalculateUpCapture ==
    /\ pc = "start"
    /\ call' = [fn     |-> "up_capture",
                raised |-> "none",
                value  |-> calculate_up_capture(portfolio_returns,
                                                benchmark_returns)]
    /\ pc' = "done"
    /\ MetricFrame

CalculateDownCapture ==
    /\ pc = "start"
    /\ call' = [fn     |-> "down_capture",
                raised |-> "none",
                value  |-> calculate_down_capture(portfolio_returns,
                                                  benchmark_returns)]
    /\ pc' = "done"
    /\ MetricFrame

CalculateCalmarRatio ==
    /\ pc = "start"
    /\ call' = [fn     |-> "calmar_ratio",
                raised |-> "none",
                value  |-> calculate_calmar_ratio(portfolio_returns)]
    /\ pc' = "done"
    /\ MetricFrame

CreateRollingMetricsChart ==
    /\ pc = "start"
    /\ \E window \in 1..MaxDays :
           call' = [fn     |-> "rolling_metrics",
                    raised |-> "none",
                    window |-> window,
                    value  |-> rolling_metrics(portfolio_returns,
                                               benchmark_returns, window)]
    /\ pc' = "done"
    /\ MetricFrame

NextAligned ==
    \/ CalculateTotalReturn
    \/ CalculateExcessReturn
    \/ CalculateCumulativeReturns
    \/ CalculateSharpeRatio
    \/ CalculateBeta
    \/ CalculateCorrelation
    \/ CalculateRSquared
    \/ CalculateTrackingError
    \/ CalculateInformationRatio
    \/ CalculateMaxDrawdown
    \/ CalculateUpCapture
    \/ CalculateDownCapture
    \/ CalculateCalmarRatio
    \/ CreateRollingMetricsChart

SpecAligned == InitAligned /\ [][NextAligned]_vars

(***************************************************************************)
(* SpecFormat: format_results applied to result dicts, whole and partial   *)
(***************************************************************************)
\* floats of a result: 1/32 and 3/32 are ties at 2 and at 4 decimals
FormatValues ==
    {NaN, <<1, 0>>, Zero, <<1, 32>>, <<3, 32>>, <<-1, 3>>, <<5, 4>>}

\* a value of the kind the analysis stores under a key
FieldValue(field, float) ==
    IF field \in PercentageFields \cup DecimalFields THEN float
    ELSE IF field \in {"portfolio_returns", "benchmark_returns"}
         THEN Series(<<1, 2>>, <<float, Zero>>)
    ELSE IF field = "cumulative_returns"
         THEN [index |-> <<1, 2>>,
               data  |-> [c \in {"Portfolio", "Benchmark"} |-> <<One, float>>]]
    ELSE IF field = "data_points" THEN 2
    ELSE IF field = "weights_used" THEN WeightsUsed(NoWeights)
    ELSE IF field \in {"analysis_date", "start_date", "end_date"}
         THEN Strftime(1)
    ELSE "Portfolio"

\* result dicts: empty, complete, without one key, or of one key alone
FormatInputs ==
    {EmptyDict} \cup
    UNION {{[field \in keys |->
                FieldValue(field, IF field = one THEN u ELSE v)] :
               keys \in {ResultKeys, ResultKeys \ {one}, {one}},
               u \in FormatValues, v \in {<<1, 32>>, <<-1, 3>>}} :
           one \in ResultKeys}

InitFormat ==
    /\ results \in FormatInputs
    /\ formatted = EmptyDict
    /\ pc = "start"
    /\ call = NoCall
    /\ portfolio_prices = NoFrame
    /\ benchmark_prices = EmptySeries
    /\ weights = NoWeights
    /\ fill_method = "pad"
    /\ index_kind = "datetime"
    /\ risk_free_rate = Zero
    /\ portfolio_returns = EmptySeries
    /\ benchmark_returns = EmptySeries
    /\ aligned_data = NoAligned
    /\ today = 0
    /\ ServiceIdle
    /\ DashboardIdle

FormatResults ==
    /\ pc = "start"
    /\ LET out == format_results(results)
       IN  /\ formatted' = out.formatted
           /\ results' = out.results
    /\ call' = [fn       |-> "format_results",
                raised   |-> "none",
                value    |-> NaN,
                argument |-> results]
    /\ pc' = "done"
    /\ UNCHANGED <<portfolio_prices, benchmark_prices, weights, fill_method,
                   index_kind, risk_free_rate, portfolio_returns,
                   benchmark_returns, aligned_data, today, serviceVars,
                   dashboardVars>>

NextFormat == FormatResults

SpecFormat == InitFormat /\ [][NextFormat]_vars

(***************************************************************************)
(* SpecFetch: safe_data_fetch, with the calls of get_stock_data that       *)
(* get_portfolio_data and get_benchmark_data make, against a network that  *)
(* answers every request in one of the ways of Responses.  The period and  *)
(* the benchmark name only select what is requested.                       *)
(***************************************************************************)
MaxSymbols == 2

SymbolLists == UNION {[1..n -> Symbols] : n \in 0..MaxSymbols}

\* no analysis is running and none has run
AnalyzerIdle ==
    /\ portfolio_prices = NoFrame
    /\ benchmark_prices = EmptySeries
    /\ weights = NoWeights
    /\ fill_method = "pad"
    /\ index_kind = "datetime"
    /\ risk_free_rate = Zero
    /\ pc = "start"
    /\ portfolio_returns = EmptySeries
    /\ benchmark_returns = EmptySeries
    /\ aligned_data = NoAligned
    /\ results = EmptyDict
    /\ call = NoCall
    /\ today = 0

\* safe_data_fetch(symbols, benchmark, period) at line 247
InitFetch ==
    /\ symbols \in SymbolLists
    /\ valid_symbols = <<>>
    /\ target = 1
    /\ fetch_attempt = -1
    /\ portfolio_data = NoPortfolioData
    /\ fetched = NotReturned
    /\ svc_pc = "validate"
    /\ attempt = 0
    /\ stock_log = <<>>
    /\ stock_data = "idle"
    /\ AnalyzerIdle
    /\ FormatIdle
    /\ DashboardIdle

\* how safe_data_fetch goes on after an attempt: it returns the pair,
\* or sleeps and tries again, or gives up after the last attempt
after_attempt(outcome, att, frame, benchmark_data) ==
    IF outcome = "fetched"
    THEN [pc |-> "returned", attempt |-> att,
          fetched |-> [portfolio |-> frame, benchmark |-> benchmark_data]]
    ELSE IF att < max_retries - 1
         THEN [pc |-> "portfolio", attempt |-> att + 1, fetched |-> NotReturned]
         ELSE [pc |-> "returned", attempt |-> att, fetched |-> NoneNone]

\* one pass of the loop of lines 247-254
ValidateSymbol ==
    /\ svc_pc = "validate"
    /\ target <= Len(symbols)
    /\ \E info \in {"price", "no_price", "error"},
          history \in {"data", "empty", "error"} :
           valid_symbols' =
               IF validate_symbol(info, history)
               THEN Append(valid_symbols, symbols[target])
               ELSE valid_symbols
    /\ target' = target + 1
    /\ UNCHANGED <<symbols, fetch_attempt, portfolio_data, fetched, svc_pc,
                   attempt, stock_log, stock_data>>
    /\ UNCHANGED <<analyzerVars, formatVars, dashboardVars>>

\* lines 256-275: nothing validated, or the first attempt starts with the
\* call of get_stock_data for the first valid symbol
ValidationDone ==
    /\ svc_pc = "validate"
    /\ target > Len(symbols)
    /\ IF valid_symbols = <<>>
       THEN /\ fetched' = NoneNone
            /\ svc_pc' = "returned"
            /\ UNCHANGED <<target, fetch_attempt, attempt, stock_log,
                           stock_data>>
       ELSE /\ fetch_attempt' = 0
            /\ svc_pc' = "portfolio"
            /\ target' = 1
            /\ attempt' = 0
            /\ stock_log' = <<>>
            /\ stock_data' = "pending"
            /\ UNCHANGED fetched
    /\ UNCHANGED <<symbols, valid_symbols, portfolio_data>>
    /\ UNCHANGED <<analyzerVars, formatVars, dashboardVars>>

\* get_stock_data: one pass of `for attempt in range(self.max_retries)`
GetStockData ==
    /\ stock_data = "pending"
    /\ \E response \in Responses :
           LET pass == get_stock_data_pass(attempt, response)
               log  == Append(stock_log, response)
           IN  IF pass.returns
               THEN /\ stock_data' = pass.value
                    /\ stock_log' = IF pass.sleeps THEN Append(log, "sleep")
                                    ELSE log
                    /\ UNCHANGED attempt
               ELSE /\ stock_log' = IF pass.sleeps THEN Append(log, "sleep")
                                    ELSE log
                    /\ attempt' = attempt + 1
                    /\ stock_data' = IF attempt + 1 < max_retries
                                     THEN "pending" ELSE "None"
    /\ UNCHANGED <<symbols, valid_symbols, target, fetch_attempt,
                   portfolio_data, fetched, svc_pc>>
    /\ UNCHANGED <<analyzerVars, formatVars, dashboardVars>>

\* get_portfolio_data: the rest of one pass of `for symbol in symbols` once
\* get_stock_data has returned, and lines 126-140 after the last pass;
\* data['Close'] raises KeyError on a frame without that column, which
\* ends the attempt of safe_data_fetch in its except branch
GetPortfolioData ==
    /\ svc_pc = "portfolio"
    /\ stock_data \notin {"pending", "idle"}
    /\ LET symbol  == valid_symbols[target]
           raised  == stock_data = "no_close"
           columns == IF stock_data = "data"
                      THEN portfolio_data.columns \cup {symbol}
                      ELSE portfolio_data.columns
           next    == after_attempt("failed", fetch_attempt,
                                    NoPortfolioData, "None")
       IN  IF raised
           THEN /\ svc_pc' = next.pc
                /\ fetched' = next.fetched
                /\ fetch_attempt' = next.attempt
                /\ target' = 1
                /\ portfolio_data' = NoPortfolioData
                /\ IF next.pc = "portfolio"
                   THEN /\ attempt' = 0
                        /\ stock_log' = <<>>
                        /\ stock_data' = "pending"
                   ELSE UNCHANGED <<attempt, stock_log, stock_data>>
           ELSE IF target < Len(valid_symbols)
           THEN /\ target' = target + 1
                /\ portfolio_data' =
                       [portfolio_data EXCEPT !.columns = columns]
                /\ attempt' = 0
                /\ stock_log' = <<>>
                /\ stock_data' = "pending"
                /\ UNCHANGED <<svc_pc, fetched, fetch_attempt>>
           ELSE /\ \E rows \in IF columns = {} THEN {FALSE} ELSE BOOLEAN :
                       portfolio_data' =
                           [kind |-> "DataFrame", columns |-> columns,
                            empty |-> ~rows]
                /\ svc_pc' = "benchmark"
                /\ attempt' = 0
                /\ stock_log' = <<>>
                /\ stock_data' = "pending"
                /\ UNCHANGED <<target, fetched, fetch_attempt>>
    /\ UNCHANGED <<symbols, valid_symbols>>
    /\ UNCHANGED <<analyzerVars, formatVars, dashboardVars>>

\* get_benchmark_data once get_stock_data has returned, and the tests of
\* safe_data_fetch on the two results (lines 280-307)
GetBenchmarkData ==
    /\ svc_pc = "benchmark"
    /\ stock_data \notin {"pending", "idle"}
    /\ LET raised         == stock_data = "no_close"
           benchmark_data == IF stock_data = "data" THEN "Close" ELSE "None"
           next == after_attempt(
                       attempt_outcome(portfolio_data, benchmark_data,
                                       raised),
                       fetch_attempt, portfolio_data, benchmark_data)
       IN  /\ svc_pc' = next.pc
           /\ fetched' = next.fetched
           /\ fetch_attempt' = next.attempt
           /\ IF next.pc = "portfolio"
              THEN /\ target' = 1
                   /\ portfolio_data' = NoPortfolioData
                   /\ attempt' = 0
                   /\ stock_log' = <<>>
                   /\ stock_data' = "pending"
              ELSE UNCHANGED <<target, portfolio_data, attempt, stock_log,
                               stock_data>>
    /\ UNCHANGED <<symbols, valid_symbols>>
    /\ UNCHANGED <<analyzerVars, formatVars, dashboardVars>>

NextFetch ==
    \/ ValidateSymbol
    \/ ValidationDone
    \/ GetStockData
    \/ GetPortfolioData
    \/ GetBenchmarkData

\* every request is answered and every sleep ends: a call that can take a
\* step takes it
SpecFetch == InitFetch /\ [][NextFetch]_vars /\ WF_vars(NextFetch)

(***************************************************************************)
(* SpecDashboard: the window after __init__, the user typing in the        *)
(* portfolio entry, choosing a sample portfolio and clicking Analyze       *)
(* Portfolio, and the timers of root.after firing as time passes           *)
(***************************************************************************)
\* the text the entry is created with, which is also that of a sample
\* portfolio
InitialText == <<" A", "B">>

SampleText == InitialText

\* texts typed into the portfolio entry: blank, commas only, one symbol,
\* one symbol twice
Texts == {<<" ">>, <<" ", " ">>, <<"B">>, <<" A", " A">>}

\* no run_analysis in the step just taken
NoRun == [outcome |-> "", symbols |-> <<>>, weights |-> <<>>]

\* ticks since the entry last changed under the user's hands, counted
\* until a refresh answers the change, and the refreshes since the change
NoBurst == [changed |-> FALSE, since |-> 0, refreshes |-> 0]

\* the id root.after returns.  Tk names every timer anew; the least id that
\* no pending timer bears and that the window does not keep is as new to
\* the program as a name never used
NewTimer ==
    LET used == {t.id : t \in timers} \cup {portfolio_change_timer}
    IN  CHOOSE id \in 1..(Cardinality(timers) + 2) :
            /\ id \notin used
            /\ \A other \in 1..(Cardinality(timers) + 2) :
                   other \notin used => id <= other

\* the window as __init__ leaves it (lines 36-46, 131, 216-219)
InitDashboard ==
    /\ entry = InitialText
    /\ LET made == create_weight_inputs(InitialText, NoWeightEntries)
       IN  /\ portfolio_weights = made.portfolio_weights
           /\ weight_entries = made.weight_entries
           /\ weight_validation_label = made.label
    /\ analyze_button = "normal"
    /\ progress = "stopped"
    /\ timers = {}
    /\ portfolio_change_timer = 0
    /\ current_results = EmptyDict
    /\ ran = NoRun
    /\ burst = NoBurst
    /\ AnalyzerIdle
    /\ FormatIdle
    /\ ServiceIdle

\* <KeyRelease> in the portfolio entry, which now holds text
OnPortfolioChange ==
    /\ \E text \in Texts : entry' = text
    /\ LET scheduled == on_portfolio_change(timers, portfolio_change_timer,
                                            NewTimer)
       IN  /\ timers' = scheduled.timers
           /\ portfolio_change_timer' = scheduled.portfolio_change_timer
    /\ burst' = [changed |-> TRUE, since |-> 0, refreshes |-> 0]
    /\ ran' = NoRun
    /\ UNCHANGED <<portfolio_weights, weight_entries, weight_validation_label,
                   analyze_button, progress, current_results>>
    /\ UNCHANGED <<analyzerVars, formatVars, serviceVars>>

\* a sample portfolio is chosen: its symbols replace the text and the
\* weight inputs are made anew at once
OnSampleSelected ==
    /\ entry' = SampleText
    /\ LET made == create_weight_inputs(SampleText, weight_entries)
       IN  /\ portfolio_weights' = made.portfolio_weights
           /\ weight_entries' = made.weight_entries
           /\ weight_validation_label' = made.label
    /\ ran' = NoRun
    /\ UNCHANGED <<analyze_button, progress, timers, portfolio_change_timer,
                   current_results, burst>>
    /\ UNCHANGED <<analyzerVars, formatVars, serviceVars>>

\* a click on Analyze Portfolio; a disabled button does not call its command
AnalyzePortfolio ==
    /\ analyze_button = "normal"
    /\ LET click == analyze_portfolio(entry)
       IN  /\ analyze_button' = click.analyze_button
           /\ progress' = IF click.progress = "started" THEN "started"
                          ELSE progress
           /\ timers' = IF click.started
                        THEN After(timers, NewTimer, AnalysisDelay,
                                   "run_analysis", ParseSymbols(entry))
                        ELSE timers
    /\ ran' = NoRun
    /\ UNCHANGED <<entry, portfolio_weights, weight_entries,
                   weight_validation_label, portfolio_change_timer,
                   current_results, burst>>
    /\ UNCHANGED <<analyzerVars, formatVars, serviceVars>>

\* the timer of analyze_portfolio fires: run_analysis(symbols, ...) with
\* its finally block.  The weights are read once the data is fetched
RunAnalysis ==
    /\ \E t \in timers, met \in Outcomes :
           /\ t.callback = "run_analysis"
           /\ t.due = 0
           /\ LET passed == IF met \in {"fetch_failed", "exception"}
                            THEN <<>>
                            ELSE get_portfolio_weights(portfolio_weights,
                                                       entry)
                  new    == [symbols |-> t.symbols]
                  try    == run_analysis(met, current_results, new)
              IN  /\ current_results' = try.current_results
                  /\ ran' = [outcome |-> met, symbols |-> t.symbols,
                             weights |-> passed]
           /\ timers' = timers \ {t}
    /\ analyze_button' = "normal"
    /\ progress' = "stopped"
    /\ UNCHANGED <<entry, portfolio_weights, weight_entries,
                   weight_validation_label, portfolio_change_timer, burst>>
    /\ UNCHANGED <<analyzerVars, formatVars, serviceVars>>

\* the timer of on_portfolio_change fires: refresh_weight_inputs
RefreshWeightInputs ==
    /\ \E t \in timers :
           /\ t.callback = "refresh_weight_inputs"
           /\ t.due = 0
           /\ timers' = timers \ {t}
    /\ LET made == create_weight_inputs(entry, weight_entries)
       IN  /\ portfolio_weights' = made.portfolio_weights
           /\ weight_entries' = made.weight_entries
           /\ weight_validation_label' = made.label
    /\ burst' = [burst EXCEPT !.refreshes = @ + 1]
    /\ ran' = NoRun
    /\ UNCHANGED <<entry, analyze_button, progress, portfolio_change_timer,
                   current_results>>
    /\ UNCHANGED <<analyzerVars, formatVars, serviceVars>>

\* 100 ms pass; the event loop runs a callback as soon as it is due, so
\* time does not pass a due timer by
Tick ==
    /\ \A t \in timers : t.due > 0
    /\ timers' = {[t EXCEPT !.due = @ - 1] : t \in timers}
    /\ burst' = [burst EXCEPT !.since =
                    IF burst.changed /\ burst.refreshes = 0
                       /\ @ <= RefreshDelay
                    THEN @ + 1 ELSE @]
    /\ ran' = NoRun
    /\ UNCHANGED <<entry, portfolio_weights, weight_entries,
                   weight_validation_label, analyze_button, progress,
                   portfolio_change_timer, current_results>>
    /\ UNCHANGED <<analyzerVars, formatVars, serviceVars>>

NextDashboard ==
    \/ OnPortfolioChange
    \/ OnSampleSelected
    \/ AnalyzePortfolio
    \/ RunAnalysis
    \/ RefreshWeightInputs
    \/ Tick

\* a callback that is due leaves the timers: the step of RunAnalysis or of
\* RefreshWeightInputs
RunDueCallback == \E t \in timers : t.due = 0 /\ timers' = timers \ {t}

\* the event loop keeps running: time passes and due callbacks are run
SpecDashboard ==
    /\ InitDashboard
    /\ [][NextDashboard]_vars
    /\ WF_vars(Tick)
    /\ WF_timers(RunDueCallback)

(***************************************************************************)
(* SpecWeights: the window once the entry holds a text and its weight      *)
(* inputs are made, the user typing weights, clicking the weight buttons,  *)
(* choosing a sample portfolio and clicking Analyze Portfolio.  These      *)
(* handlers neither schedule nor cancel a refresh.                         *)
(***************************************************************************)
\* the texts whose weight inputs are made: the initial text and the texts
\* typed over it
WeightTexts == Texts \cup {InitialText}

\* the window after text was typed over the initial text and the refresh
\* has made the weight inputs
InitWeights ==
    /\ entry \in WeightTexts
    /\ LET first == create_weight_inputs(InitialText, NoWeightEntries)
           made  == create_weight_inputs(entry, first.weight_entries)
       IN  /\ portfolio_weights = made.portfolio_weights
           /\ weight_entries = made.weight_entries
           /\ weight_validation_label = made.label
    /\ analyze_button = "normal"
    /\ progress = "stopped"
    /\ timers = {}
    /\ portfolio_change_timer = 0
    /\ current_results = EmptyDict
    /\ ran = NoRun
    /\ burst = NoBurst
    /\ AnalyzerIdle
    /\ FormatIdle
    /\ ServiceIdle

\* a click on Refresh Weights
CreateWeightInputs ==
    /\ LET made == create_weight_inputs(entry, weight_entries)
       IN  /\ portfolio_weights' = made.portfolio_weights
           /\ weight_entries' = made.weight_entries
           /\ weight_validation_label' = made.label
    /\ ran' = NoRun
    /\ UNCHANGED <<entry, analyze_button, progress, timers,
                   portfolio_change_timer, current_results, burst>>
    /\ UNCHANGED <<analyzerVars, formatVars, serviceVars>>

\* <KeyRelease> in the weight entry of a symbol, which now holds typed
OnWeightChange ==
    /\ ~weight_entries.destroyed
    /\ \E symbol \in DOMAIN weight_entries.texts, typed \in TypedWeights :
           LET texts  == [weight_entries.texts EXCEPT ![symbol] = typed]
               stored == on_weight_change(portfolio_weights, texts)
           IN  /\ weight_entries' = [weight_entries EXCEPT !.texts = texts]
               /\ portfolio_weights' = stored
               /\ weight_validation_label' =
                      update_weight_validation(entry, stored)
    /\ ran' = NoRun
    /\ UNCHANGED <<entry, analyze_button, progress, timers,
                   portfolio_change_timer, current_results, burst>>
    /\ UNCHANGED <<analyzerVars, formatVars, serviceVars>>

\* a click on Set Equal Weights
SetEqualWeights ==
    /\ LET set == set_equal_weights(entry, portfolio_weights, weight_entries)
       IN  /\ portfolio_weights' = set.portfolio_weights
           /\ weight_entries' = set.weight_entries
           /\ weight_validation_label' =
                  IF set.relabel
                  THEN update_weight_validation(entry, set.portfolio_weights)
                  ELSE weight_validation_label
    /\ ran' = NoRun
    /\ UNCHANGED <<entry, analyze_button, progress, timers,
                   portfolio_change_timer, current_results, burst>>
    /\ UNCHANGED <<analyzerVars, formatVars, serviceVars>>

\* a click on Clear All Weights
ClearWeights ==
    /\ LET cleared == clear_weights(portfolio_weights, weight_entries)
       IN  /\ portfolio_weights' = cleared.portfolio_weights
           /\ weight_entries' = cleared.weight_entries
           /\ weight_validation_label' =
                  IF cleared.relabel
                  THEN update_weight_validation(entry,
                                                cleared.portfolio_weights)
                  ELSE weight_validation_label
    /\ ran' = NoRun
    /\ UNCHANGED <<entry, analyze_button, progress, timers,
                   portfolio_change_timer, current_results, burst>>
    /\ UNCHANGED <<analyzerVars, formatVars, serviceVars>>

NextWeights ==
    \/ OnSampleSelected
    \/ AnalyzePortfolio
    \/ RunAnalysis
    \/ CreateWeightInputs
    \/ OnWeightChange
    \/ SetEqualWeights
    \/ ClearWeights
    \/ Tick

SpecWeights == InitWeights /\ [][NextWeights]_vars

(***************************************************************************)
(* Properties                                                              *)
(***************************************************************************)
\* the return of instrument c on the i-th day of the price table
StockReturn(c, i) == PctChangeValues(portfolio_prices.data[c], fill_method)[i]

\* the returns of every instrument, day by day
StockReturns ==
    Eager([c \in DOMAIN portfolio_prices.data |->
              PctChangeValues(portfolio_prices.data[c], fill_method)])

\* the weighted sum of the returns sr of day i over the instruments that are
\* both weighted and priced
RawWeightedSum(sr, i) ==
    LET both == DOMAIN weights.map \cap DOMAIN sr
    IN  SumOver(both, [c \in both |-> FMul(weights.map[c], sr[c][i])])

\* the sum of all the weights supplied
SuppliedWeightSum == SumOver(DOMAIN weights.map, weights.map)

\* C1: with weights of non-zero sum, the portfolio return of every date is
\* the weighted sum over the instruments both weighted and priced, divided
\* by the sum of all supplied weights (absent instruments included).
C1_WeightedReturnOverAllWeights ==
    (pc = "returned" /\ weights.given /\ SuppliedWeightSum # Zero) =>
        LET sr    == StockReturns
            total == SuppliedWeightSum
        IN  \A k \in 1..Len(portfolio_returns.index) :
                portfolio_returns.values[k] =
                    FDiv(RawWeightedSum(sr, portfolio_returns.index[k]),
                         total)

C1_Witness ==
    /\ pc = "returned" /\ weights.given
    /\ "C" \in DOMAIN weights.map /\ "A" \in DOMAIN weights.map
    /\ SuppliedWeightSum # Zero
    /\ SuppliedWeightSum # FSub(SuppliedWeightSum, weights.map["C"])
    /\ \E k \in 1..Len(portfolio_returns.index) :
           portfolio_returns.values[k] # Zero

\* the days on which every instrument of the table has a return in sr
FullReturnDays(sr) ==
    {i \in 1..Len(portfolio_prices.index) :
        \A c \in DOMAIN sr : ~IsNaN(sr[c][i])}

\* C9: without weights the portfolio series holds exactly the dates on which
\* every instrument has a return, with the arithmetic mean of the returns.
C9_EqualWeightOnFullDates ==
    (pc = "returned" /\ ~weights.given) =>
        LET sr   == StockReturns
            full == FullReturnDays(sr)
            cols == DOMAIN portfolio_prices.data
        IN  /\ Range(portfolio_returns.index) =
                   {portfolio_prices.index[i] : i \in full}
            /\ Len(portfolio_returns.index) = Cardinality(full)
            /\ \A k \in 1..Len(portfolio_returns.index) :
                   LET i == portfolio_returns.index[k]
                   IN  portfolio_returns.values[k] =
                           FDiv(SumOver(cols, [c \in cols |-> sr[c][i]]),
                                Num(Cardinality(cols)))

C9_Witness ==
    /\ pc = "returned" /\ ~weights.given
    /\ Len(portfolio_returns.index) > 0
    /\ \E i \in 1..Len(portfolio_prices.index) :
           /\ i \notin FullReturnDays(StockReturns)
           /\ \E c \in DOMAIN portfolio_prices.data : ~IsNaN(StockReturn(c, i))
    /\ \E k \in 1..Len(portfolio_returns.index) :
           portfolio_returns.values[k] # Zero

\* C10: with weights that sum to zero the portfolio return of every date is
\* the raw weighted sum, finite, with no division.
C10_ZeroSumRawWeightedSum ==
    (pc = "returned" /\ weights.given /\ SuppliedWeightSum = Zero) =>
        LET sr == StockReturns
        IN  \A k \in 1..Len(portfolio_returns.index) :
                /\ IsFinite(portfolio_returns.values[k])
                /\ portfolio_returns.values[k] =
                       RawWeightedSum(sr, portfolio_returns.index[k])

C10_Witness ==
    /\ pc = "returned" /\ weights.given
    /\ SuppliedWeightSum = Zero
    /\ \E c \in DOMAIN weights.map : weights.map[c] # Zero
    /\ \E k \in 1..Len(portfolio_returns.index) :
           portfolio_returns.values[k] # Zero

\* C11: with weights for exactly the priced instruments that sum to 1, the
\* portfolio return of every full date is the plain sum of weight times
\* return; equal weights 1/n give the series of the weights-absent path.
C11_UnitWeightsPlainSum ==
    (pc = "returned" /\ weights.given
       /\ DOMAIN weights.map = DOMAIN portfolio_prices.data
       /\ SuppliedWeightSum = One) =>
        LET sr   == StockReturns
            full == FullReturnDays(sr)
            cols == DOMAIN portfolio_prices.data
            n    == Cardinality(cols)
        IN  /\ Range(portfolio_returns.index) =
                   {portfolio_prices.index[i] : i \in full}
            /\ Len(portfolio_returns.index) = Cardinality(full)
            /\ \A k \in 1..Len(portfolio_returns.index) :
                   portfolio_returns.values[k] =
                       RawWeightedSum(sr, portfolio_returns.index[k])
            /\ (\A c \in cols : weights.map[c] = <<1, n>>) =>
                   \A k \in 1..Len(portfolio_returns.index) :
                       portfolio_returns.values[k] =
                           FDiv(SumOver(cols, [c \in cols |->
                                    sr[c][portfolio_returns.index[k]]]),
                                Num(n))

C11_Witness ==
    /\ pc = "returned" /\ weights.given
    /\ DOMAIN weights.map = DOMAIN portfolio_prices.data
    /\ \A c \in DOMAIN weights.map :
           weights.map[c] = <<1, Cardinality(DOMAIN weights.map)>>
    /\ \E k \in 1..Len(portfolio_returns.index) :
           /\ portfolio_returns.values[k] # Zero
           /\ StockReturn("A", portfolio_returns.index[k]) #
                  StockReturn("B", portfolio_returns.index[k])

\* the portfolio and benchmark return series before alignment
UnalignedPortfolio ==
    calculate_portfolio_returns(portfolio_prices, weights, fill_method)

UnalignedBenchmark == SeriesReturns(benchmark_prices, fill_method)

CommonReturnDates ==
    Range(UnalignedPortfolio.index) \cap Range(UnalignedBenchmark.index)

StrictlyIncreasing(idx) ==
    \A i \in 1..Len(idx) : \A j \in 1..Len(idx) : i < j => idx[i] < idx[j]

\* C2: alignment fails exactly when the two return series share fewer than
\* 30 dates, and the analysis then returns no result at all.
C2_InsufficientOverlap ==
    pc = "done" =>
        LET n == Cardinality(CommonReturnDates)
        IN  /\ n < 30 => (~aligned_data.ok /\ DOMAIN results = {})
            /\ n >= 30 => aligned_data.ok

C2_Witness ==
    /\ pc = "done"
    /\ Cardinality(CommonReturnDates) = 29
    /\ ~aligned_data.ok
    /\ DOMAIN results = {}

\* C3: when alignment succeeds both series carry the same strictly
\* increasing index, which is exactly the set of common dates, and every
\* value is the input series' value at its date.
C3_AlignedOnCommonDates ==
    (pc = "done" /\ aligned_data.ok) =>
        LET ap == aligned_data.portfolio
            ab == aligned_data.benchmark
            up == UnalignedPortfolio
            ub == UnalignedBenchmark
        IN  /\ ap.index = ab.index
            /\ Len(ap.values) = Len(ab.values)
            /\ Len(ap.values) = Len(ap.index)
            /\ Range(ap.index) = Range(up.index) \cap Range(ub.index)
            /\ StrictlyIncreasing(ap.index)
            /\ \A k \in 1..Len(ap.index) :
                   /\ \E i \in 1..Len(up.index) :
                          /\ up.index[i] = ap.index[k]
                          /\ up.values[i] = ap.values[k]
                   /\ \E i \in 1..Len(ub.index) :
                          /\ ub.index[i] = ab.index[k]
                          /\ ub.values[i] = ab.values[k]

C3_Witness ==
    /\ pc = "done" /\ aligned_data.ok
    /\ LET up == UnalignedPortfolio
           ub == UnalignedBenchmark
       IN  /\ up.index # ub.index
           /\ \E k \in 1..Len(aligned_data.benchmark.index) :
                  /\ aligned_data.benchmark.values[k] # Zero
                  /\ ub.index[k] # aligned_data.benchmark.index[k]

CommonPriceDates ==
    Range(portfolio_prices.index) \cap Range(benchmark_prices.index)

\* the dates of a gap-free price series that carry a return: all but the first
DatesAfterFirst(idx) == Range(idx) \ {idx[1]}

PipelineSucceeds ==
    /\ aligned_data.ok
    /\ aligned_data.portfolio.index = aligned_data.benchmark.index
    /\ Len(aligned_data.portfolio.values) = Len(aligned_data.benchmark.values)
    /\ StrictlyIncreasing(aligned_data.portfolio.index)

\* C4 as stated: 30 or more overlapping price dates are enough for the
\* pipeline to succeed.
C4_ThirtyPriceDatesSuffice ==
    (pc = "done" /\ Cardinality(CommonPriceDates) >= 30) => PipelineSucceeds

\* C4, amended: the pipeline succeeds whenever the return series (each price
\* series without its first date) share at least 30 dates, which 31
\* overlapping price dates always give; it fails on fewer.
C4_ThirtyReturnDatesSuffice ==
    pc = "done" =>
        LET shared == DatesAfterFirst(portfolio_prices.index)
                          \cap DatesAfterFirst(benchmark_prices.index)
        IN  /\ Cardinality(shared) >= 30 => PipelineSucceeds
            /\ Cardinality(CommonPriceDates) >= 31 => PipelineSucceeds
            /\ Cardinality(shared) < 30 => ~aligned_data.ok

C4_Witness ==
    /\ pc = "done"
    /\ Cardinality(CommonPriceDates) = 31
    /\ PipelineSucceeds
    /\ Len(aligned_data.portfolio.index) = 30

\* the keys of a complete result, as the spec's bundle lists them
CompleteKeys ==
    {"portfolio_name", "benchmark_name", "analysis_date", "data_points",
     "start_date", "end_date", "weights_used"} \cup
    {"portfolio_total_return", "benchmark_total_return", "excess_return",
     "portfolio_volatility", "benchmark_volatility", "portfolio_sharpe_ratio",
     "benchmark_sharpe_ratio", "alpha", "beta", "correlation", "r_squared",
     "tracking_error", "information_ratio", "max_drawdown", "var_95",
     "var_99", "up_capture", "down_capture", "calmar_ratio"} \cup
    {"portfolio_returns", "benchmark_returns", "cumulative_returns"}

\* C8: a call ends with a complete result or with an empty one; no exception
\* leaves it and no partial result is returned.
C8_CompleteOrEmpty ==
    pc = "done" =>
        /\ call.raised = "none"
        /\ DOMAIN results = {} \/ DOMAIN results = CompleteKeys
        /\ DOMAIN results = CompleteKeys =>
               /\ aligned_data.ok
               /\ results.portfolio_returns = aligned_data.portfolio
               /\ results.benchmark_returns = aligned_data.benchmark
               /\ results.data_points = Len(aligned_data.portfolio.values)

C8_Witness ==
    /\ pc = "done"
    /\ aligned_data.ok
    /\ index_kind = "other"
    /\ DOMAIN results = {}
    /\ call.raised = "none"

Misaligned(p, b) == p.index # b.index

\* C5: beta of a series of non-zero variance against itself is 1.
C5_BetaOfSelfIsOne ==
    (/\ pc = "done" /\ call.fn = "beta"
     /\ portfolio_returns = benchmark_returns
     /\ \E i \in 1..Len(benchmark_returns.values) :
            benchmark_returns.values[i] # benchmark_returns.values[1])
        => (call.raised = "none" /\ call.value = One)

\* C6: Jensen's alpha of a non-constant series against itself is 0 for
\* every risk-free rate.
C6_AlphaOfSelfIsZero ==
    (/\ pc = "done" /\ call.fn = "alpha"
     /\ portfolio_returns = benchmark_returns
     /\ \E i \in 1..Len(benchmark_returns.values) :
            benchmark_returns.values[i] # benchmark_returns.values[1])
        => (call.raised = "none" /\ call.value = Zero)

\* C7: a metric called on series of different lengths or indices fails with
\* MisalignedInputError and gives no value.
C7_MisalignedInputsRejected ==
    (/\ pc = "done" /\ call.fn \in {"beta", "alpha", "tracking_error"}
     /\ Misaligned(portfolio_returns, benchmark_returns))
        => call.raised = "MisalignedInputError"

\* the value of one unit after the first k returns of v, compounded directly
RECURSIVE Compound(_, _)
Compound(v, k) ==
    IF k = 0 THEN One ELSE FMul(Compound(v, k - 1), FAdd(One, v[k]))

\* every compounded value is at least the one before it
NeverDeclines(v) ==
    \A k \in 1..Len(v) : ~FLess(Compound(v, k), Compound(v, k - 1))

IsConstant(v) == \A i \in 1..Len(v) : v[i] = v[1]

\* the sign of coef * sqrt(radicand)
SurdSign(x) == IF x.radicand = Zero THEN 0 ELSE Sgn(x.coef[1])

\* two symbolic roots denote the same number
SurdSame(x, y) ==
    \/ x = y
    \/ SurdSign(x) = SurdSign(y) /\ SurdSquare(x) = SurdSquare(y)

\* the mean of the values of v at the positions S
MeanOver(S, v) == FDiv(SumOver(S, [i \in S |-> v[i]]), Num(Cardinality(S)))

\* mean(p over S) / mean(b over S), 0 without a day in S or with a zero
\* benchmark mean
CaptureOver(S, p, b) ==
    IF S = {} THEN Zero
    ELSE IF MeanOver(S, b) = Zero THEN Zero
         ELSE FDiv(MeanOver(S, p), MeanOver(S, b))

\* C12: for returns all above -1 the max drawdown is at most 0, and it is 0
\* exactly when the cumulative value series never declines.
C12_MaxDrawdownNonPositive ==
    (/\ pc = "done" /\ call.fn = "max_drawdown"
     /\ \A i \in 1..Len(portfolio_returns.values) :
            FLess(Num(-1), portfolio_returns.values[i]))
        => /\ IsFinite(call.value)
           /\ ~FLess(Zero, call.value)
           /\ (call.value = Zero) <=>
                  \A k \in 2..Len(portfolio_returns.values) :
                      ~FLess(Compound(portfolio_returns.values, k),
                             Compound(portfolio_returns.values, k - 1))

C12_Witness ==
    /\ pc = "done" /\ call.fn = "max_drawdown"
    /\ FLess(call.value, Zero)
    /\ FLess(One, Compound(portfolio_returns.values,
                           Len(portfolio_returns.values)))

\* C13: identical series have tracking error 0 and information ratio 0; the
\* information ratio is 0 whenever tracking error is 0 and the annualised
\* mean excess return over tracking error otherwise.
C13_InformationRatio ==
    LET p    == portfolio_returns.values
        b    == benchmark_returns.values
        diff == [i \in 1..Len(p) |-> FSub(p[i], b[i])]
        te   == Surd(One, FMul(Var(diff, 1), Num(TradingDays)))
    IN  /\ (pc = "done" /\ call.fn = "tracking_error") =>
               /\ SurdSame(call.value, te)
               /\ (p = b) => SurdIsZero(call.value)
        /\ (pc = "done" /\ call.fn = "information_ratio") =>
               /\ call.raised = "none"
               /\ IF SurdIsZero(te) THEN call.value = SurdZero
                  ELSE SurdSame(call.value,
                                Surd(FMul(Mean(diff), Num(TradingDays)),
                                     FInv(te.radicand)))
               /\ (p = b) => call.value = SurdZero

C13_Witness ==
    /\ pc = "done" /\ call.fn = "information_ratio"
    /\ portfolio_returns = benchmark_returns
    /\ ~IsConstant(portfolio_returns.values)
    /\ call.value = SurdZero

\* C14: the correlation of a non-constant series with itself is 1, so is its
\* R-squared; R-squared is always the square of the correlation.
C14_SelfCorrelation ==
    /\ (/\ pc = "done" /\ call.fn = "correlation"
        /\ portfolio_returns = benchmark_returns
        /\ ~IsConstant(portfolio_returns.values))
           => SurdSame(call.value, Surd(One, One))
    /\ (pc = "done" /\ call.fn = "r_squared") =>
           LET c == calculate_correlation(portfolio_returns,
                                          benchmark_returns)
           IN  /\ call.value = FMul(FMul(c.coef, c.coef), c.radicand)
               /\ (/\ portfolio_returns = benchmark_returns
                   /\ ~IsConstant(portfolio_returns.values))
                      => call.value = One

C14_Witness ==
    /\ pc = "done" /\ call.fn = "r_squared"
    /\ portfolio_returns = benchmark_returns
    /\ ~IsConstant(portfolio_returns.values)
    /\ call.value = One

\* C15: the Sharpe ratio is 0 for a series of standard deviation 0 whatever
\* the risk-free rate, and mean(R - rf_daily) * 252 / (std(R) * sqrt(252))
\* otherwise.
C15_SharpeRatio ==
    (pc = "done" /\ call.fn = "sharpe_ratio") =>
        LET r      == portfolio_returns.values
            rfd    == risk_free_rate_daily(risk_free_rate)
            excess == [i \in 1..Len(r) |-> FSub(r[i], rfd)]
        IN  /\ IsConstant(r) <=> Var(r, 1) = Zero
            /\ IF IsConstant(r) THEN call.value = SurdZero
               ELSE SurdSame(call.value,
                             Surd(FMul(Mean(excess), Num(TradingDays)),
                                  FInv(FMul(Var(r, 1), Num(TradingDays)))))

C15_Witness ==
    /\ pc = "done" /\ call.fn = "sharpe_ratio"
    /\ IsConstant(portfolio_returns.values)
    /\ portfolio_returns.values[1] # Zero
    /\ risk_free_rate # Zero
    /\ call.value = SurdZero

\* C16: beta is the number 0 when the benchmark has zero variance, over the
\* full sample and in every rolling window, and nothing is raised.
C16_ZeroVarianceBeta ==
    /\ (/\ pc = "done" /\ call.fn = "beta"
        /\ IsConstant(benchmark_returns.values))
           => (call.raised = "none" /\ call.value = Zero)
    /\ (pc = "done" /\ call.fn = "rolling_metrics") =>
           /\ call.raised = "none"
           /\ \A k \in 1..Len(call.value) :
                  IsConstant(SubSeq(benchmark_returns.values,
                                    k, k + call.window - 1))
                      => call.value[k].beta = Zero

C16_Witness ==
    /\ pc = "done" /\ call.fn = "rolling_metrics"
    /\ call.window > 1
    /\ ~IsConstant(benchmark_returns.values)
    /\ \E k \in 1..Len(call.value) :
           /\ IsConstant(SubSeq(benchmark_returns.values,
                                k, k + call.window - 1))
           /\ ~IsConstant(SubSeq(portfolio_returns.values,
                                 k, k + call.window - 1))
           /\ call.value[k].beta = Zero

\* C17: up (down) capture is the mean portfolio return over the days with a
\* positive (negative) benchmark return over the mean benchmark return of
\* the same days, 0 without such a day or with a zero benchmark mean; days
\* with a benchmark return of 0 enter neither.
C17_Capture ==
    LET p    == portfolio_returns.values
        b    == benchmark_returns.values
        up   == {i \in 1..Len(b) : FLess(Zero, b[i])}
        down == {i \in 1..Len(b) : FLess(b[i], Zero)}
    IN  /\ (pc = "done" /\ call.fn = "up_capture") =>
               call.value = CaptureOver(up, p, b)
        /\ (pc = "done" /\ call.fn = "down_capture") =>
               call.value = CaptureOver(down, p, b)

C17_Witness ==
    /\ pc = "done" /\ call.fn = "up_capture"
    /\ call.value # Zero
    /\ \E i \in 1..Len(benchmark_returns.values) :
           /\ benchmark_returns.values[i] = Zero
           /\ portfolio_returns.values[i] # Zero
    /\ \E i \in 1..Len(benchmark_returns.values) :
           FLess(benchmark_returns.values[i], Zero)

\* C18: Calmar is total return over abs(max drawdown) for a non-zero max
\* drawdown and 0 for a zero one, so a portfolio that never declines has
\* Calmar 0 whatever its total return.
C18_CalmarRatio ==
    (pc = "done" /\ call.fn = "calmar_ratio") =>
        LET r  == portfolio_returns.values
            tr == FSub(Compound(r, Len(r)), One)
            md == calculate_max_drawdown(portfolio_returns)
        IN  /\ call.value =
                   IF md = Zero THEN Zero
                   ELSE FDiv(tr, IF FLess(md, Zero) THEN FNeg(md) ELSE md)
            /\ NeverDeclines(r) => call.value = Zero

C18_Witness ==
    /\ pc = "done" /\ call.fn = "calmar_ratio"
    /\ NeverDeclines(portfolio_returns.values)
    /\ FLess(One, Compound(portfolio_returns.values,
                           Len(portfolio_returns.values)))
    /\ call.value = Zero

\* C19: total return is the product of (1 + R_t) minus 1; the k-th
\* cumulative value is 1 compounded by the first k returns, the last one is
\* 1 + total return; excess return is the difference of the total returns.
C19_TotalReturnCompounds ==
    LET p  == portfolio_returns.values
        b  == benchmark_returns.values
        n  == Len(p)
    IN  /\ (pc = "done" /\ call.fn = "total_return") =>
               call.value = FSub(Compound(p, n), One)
        /\ (pc = "done" /\ call.fn = "excess_return") =>
               call.value = FSub(FSub(Compound(p, n), One),
                                 FSub(Compound(b, n), One))
        /\ (pc = "done" /\ call.fn = "cumulative_returns") =>
               /\ call.value.index = portfolio_returns.index
               /\ Len(call.value.data["Portfolio"]) = n
               /\ Len(call.value.data["Benchmark"]) = n
               /\ \A k \in 1..n :
                      /\ call.value.data["Portfolio"][k] = Compound(p, k)
                      /\ call.value.data["Benchmark"][k] = Compound(b, k)
               /\ call.value.data["Portfolio"][n] =
                      FAdd(One, calculate_total_return(portfolio_returns))

C19_Witness ==
    /\ pc = "done" /\ call.fn = "total_return"
    /\ Len(portfolio_returns.values) > 2
    /\ \A i \in 1..Len(portfolio_returns.values) :
           portfolio_returns.values[i] # Zero
    /\ call.value # SumSeq(portfolio_returns.values)

\* C20: a second call on the same prices, weights, names and risk-free rate
\* returns the result of the first in every field, whenever it is made.
C20_RepeatedCallIdentical ==
    pc = "again" => results = call.earlier

\* y is x rounded to a multiple of 1/scale: a multiple of 1/scale at most
\* half a step from x; nan and the infinities are kept
RoundedTo(y, x, scale) ==
    IF ~IsFinite(x) THEN y = x
    ELSE /\ IsFinite(y)
         /\ FMul(y, Num(scale))[2] = 1
         /\ ~FLess(<<1, 2 * scale>>, FSub(y, x))
         /\ ~FLess(<<1, 2 * scale>>, FSub(x, y))

\* C21: format_results returns a mapping with the keys of its argument in
\* which the ten percentage fields are the raw values times 100 rounded to
\* 2 decimals, the nine ratio fields the raw values rounded to 4 decimals
\* and every other key has its raw value; the argument keeps its raw
\* values; an empty argument gives an empty mapping.
C21_FormatResults ==
    (pc = "done" /\ call.fn = "format_results") =>
        LET raw == call.argument
        IN  /\ results = raw
            /\ raw = EmptyDict => formatted = EmptyDict
            /\ DOMAIN formatted = DOMAIN raw
            /\ Cardinality(PercentageFields) = 10
            /\ Cardinality(DecimalFields) = 9
            /\ PercentageFields \cap DecimalFields = {}
            /\ \A field \in DOMAIN raw :
                   IF field \in PercentageFields
                   THEN RoundedTo(formatted[field],
                                  FMul(raw[field], Num(100)), 100)
                   ELSE IF field \in DecimalFields
                   THEN RoundedTo(formatted[field], raw[field], 10000)
                   ELSE formatted[field] = raw[field]

C21_Witness ==
    /\ pc = "done" /\ call.fn = "format_results"
    /\ DOMAIN call.argument = ResultKeys
    /\ call.argument["alpha"] = <<3, 32>>
    /\ formatted["alpha"] = <<469, 50>>
    /\ call.argument["beta"] = <<-1, 3>>
    /\ formatted["beta"] = <<-3333, 10000>>
    /\ results["alpha"] = <<3, 32>>

\* the rows at the positions lo..hi - 1 of a series, positions counted from 0
Slice(series, lo, hi) ==
    Series([j \in 1..(hi - lo) |-> series.index[lo + j]],
           [j \in 1..(hi - lo) |-> series.values[lo + j]])

\* C22: on aligned series of length N the rolling loop with window W gives
\* max(0, N - W) triples, none when N <= W; the k-th is for position
\* i = W + k - 1 (the first for position W, then in increasing order),
\* carries the date at position i, and its beta and correlation are those
\* of the W returns at positions i - W .. i - 1; cutting the series off
\* after position i leaves the triple as it is (no later data is used).
C22_RollingTriples ==
    (pc = "done" /\ call.fn = "rolling_metrics") =>
        LET N    == Len(portfolio_returns.values)
            W    == call.window
            rows == call.value
        IN  /\ Len(rows) = IF N > W THEN N - W ELSE 0
            /\ N <= W => rows = <<>>
            /\ \A k \in 1..Len(rows) :
                   LET i  == W + k - 1
                       wp == Slice(portfolio_returns, i - W, i)
                       wb == Slice(benchmark_returns, i - W, i)
                       cut == rolling_metrics(
                                  Slice(portfolio_returns, 0, i + 1),
                                  Slice(benchmark_returns, 0, i + 1), W)
                   IN  /\ i \in W..(N - 1)
                       /\ rows[k].date = portfolio_returns.index[i + 1]
                       /\ Len(wp.values) = W
                       /\ rows[k].beta = calculate_beta(wp, wb)
                       /\ rows[k].correlation = calculate_correlation(wp, wb)
                       /\ rows[k] = cut[Len(cut)]
                       /\ k > 1 => rows[k - 1].date < rows[k].date

C22_Witness ==
    /\ pc = "done" /\ call.fn = "rolling_metrics"
    /\ call.window = 2
    /\ Len(call.value) = 1
    /\ IsFinite(call.value[1].beta) /\ call.value[1].beta # Zero
    /\ call.value[1].beta #
           calculate_beta(Slice(portfolio_returns, 1, 3),
                          Slice(benchmark_returns, 1, 3))

\* the answers received in a log of get_stock_data, without the sleeps
Answers(log) == SelectSeq(log, LAMBDA e : e # "sleep")

FailedAnswer(e) == e \in {"empty", "error"}

\* what C24 says of the call of get_stock_data under way or last made
StockDataWithinRetries ==
    stock_data # "idle" =>
        LET answers == Answers(stock_log)
            n       == Len(answers)
        IN  /\ n <= max_retries
            /\ \A i \in 1..(n - 1) : FailedAnswer(answers[i])
            /\ stock_data = "pending" =>
                   /\ n < max_retries
                   /\ n > 0 => FailedAnswer(answers[n])
            /\ stock_data \notin {"pending", "None"} =>
                   /\ n > 0
                   /\ ~FailedAnswer(answers[n])
                   /\ stock_data = answers[n]
            /\ stock_data = "None" =>
                   /\ n = max_retries
                   /\ FailedAnswer(answers[n])
            /\ \A j \in 1..Len(stock_log) :
                   IF stock_log[j] = "sleep"
                   THEN /\ j > 1 /\ FailedAnswer(stock_log[j - 1])
                        /\ j = Len(stock_log) => stock_data = "pending"
                   ELSE j > 1 => stock_log[j - 1] = "sleep"

\* C24: a call of get_stock_data makes at most max_retries (3) requests and
\* returns: the data of the first request answered with non-empty data,
\* after which it makes no request, or None once all 3 requests failed
\* (empty data or an exception); it sleeps once between two requests and
\* never after the last.
C24_GetStockData ==
    /\ []StockDataWithinRetries
    /\ (stock_data = "pending") ~> (stock_data # "pending")

C24_Witness ==
    /\ stock_data = "data"
    /\ stock_log = <<"empty", "sleep", "error", "sleep", "data">>
    /\ attempt = 2

\* what C23 says of safe_data_fetch once it has returned
FetchedBothOrNeither ==
    /\ fetch_attempt + 1 <= max_retries
    /\ svc_pc = "returned" =>
           /\ \/ fetched = NoneNone
              \/ /\ fetched.portfolio.kind = "DataFrame"
                 /\ ~fetched.portfolio.empty
                 /\ fetched.portfolio.columns # {}
                 /\ fetched.benchmark = "Close"
           /\ valid_symbols = <<>> =>
                  /\ fetched = NoneNone
                  /\ fetch_attempt + 1 = 0
                  /\ stock_data = "idle" /\ stock_log = <<>>
    /\ svc_pc # "returned" => fetched = NotReturned

PendingAnalyses == {t \in timers : t.callback = "run_analysis"}

\* the button and the progress bar tell whether an analysis is pending,
\* and there is never more than one
ButtonTellsPending ==
    /\ Cardinality(PendingAnalyses) <= 1
    /\ analyze_button = "disabled" <=> PendingAnalyses # {}
    /\ progress = "started" <=> PendingAnalyses # {}
    /\ ran.outcome \in Outcomes =>
           analyze_button = "normal" /\ progress = "stopped"

\* the button is disabled only by a click that finds symbols in the entry
\* and schedules their analysis
DisabledByValidClick ==
    (analyze_button = "normal" /\ analyze_button' = "disabled") =>
        /\ ParseSymbols(entry) # <<>>
        /\ PendingAnalyses = {}
        /\ \E t \in timers' :
               /\ PendingAnalyses' = {t}
               /\ t.due = AnalysisDelay
               /\ t.symbols = ParseSymbols(entry)

\* C25: the Analyze button is disabled, and the progress bar runs, exactly
\* while an analysis is scheduled or running, of which there is at most
\* one; run_analysis re-enables the button and stops the bar whatever it
\* met; only a click that passes the validation disables the button; and
\* every analysis started is followed by the button enabled again.
C25_ButtonWhileAnalysing ==
    /\ []ButtonTellsPending
    /\ [][DisabledByValidClick]_vars
    /\ (analyze_button = "disabled") ~>
           (analyze_button = "normal" /\ progress = "stopped")

C25_Witness ==
    /\ ran.outcome = "exception"
    /\ ran.symbols = <<"B">>
    /\ analyze_button = "normal"
    /\ progress = "stopped"
    /\ BlankText(entry)

\* run_analysis, in the step just taken, handed weights to the analyzer
AnalyzerCalled ==
    ran.outcome \in {"empty_result", "display_exception", "success"}

\* C26: however the edits of the portfolio entry, the refresh of the weight
\* inputs 500 ms after an edit and a click on Analyze interleave, the
\* weights run_analysis hands to the analyzer are keyed by exactly the
\* symbols it analyses, those parsed from the entry at the click.
C26_WeightsKeyedBySymbols ==
    AnalyzerCalled => DOMAIN ran.weights = Range(ran.symbols)

\* what a step does to current_results: a run of run_analysis that met a
\* failed fetch, an exception before the store or an empty result keeps
\* it, as does every step that is no run of run_analysis; a run whose
\* analysis returned a result stores the result of the symbols analysed
ResultsKeptOrReplaced ==
    /\ ran'.outcome \in {"fetch_failed", "exception", "empty_result"} =>
           current_results' = current_results
    /\ ran'.outcome \in {"display_exception", "success"} =>
           current_results' = [symbols |-> ran'.symbols]
    /\ ran'.outcome = "" => current_results' = current_results

\* C27: a failed analysis leaves current_results as it was: it is replaced
\* only by an analysis that returned a non-empty result, so after a failed
\* fetch, an empty result or an exception raised before the store it
\* still holds the result of the last successful analysis.
C27_FailedAnalysisKeepsResults == [][ResultsKeptOrReplaced]_vars

C27_Witness ==
    /\ ran.outcome = "empty_result"
    /\ ran.symbols = <<"A", "A">>
    /\ current_results = [symbols |-> <<"B">>]

\* C28: whenever the result reports weights_used = 'equal-weighted', be the
\* weights argument None or an empty mapping, its portfolio return series
\* is the equal-weight average of the instruments' returns on its dates.
C28_EqualWeightedIsAverage ==
    (pc \in {"done", "again"} /\ results # EmptyDict
        /\ results.weights_used.label = "equal-weighted") =>
        LET average == RowMean(FrameReturns(portfolio_prices, fill_method))
            r       == results.portfolio_returns
        IN  \A k \in 1..Len(r.index) :
                r.values[k] = ValueAt(average, r.index[k])

\* the refreshes scheduled and not yet run
PendingRefreshes ==
    {t \in timers : t.callback = "refresh_weight_inputs"}

\* at most one refresh is pending, the one the window keeps the id of, due
\* 500 ms after the last change; a change not yet answered has its refresh
\* pending; no change is answered twice, and none before the 500 ms
OneRefreshPending ==
    /\ Cardinality(PendingRefreshes) <= 1
    /\ \A t \in PendingRefreshes :
           /\ t.id = portfolio_change_timer
           /\ t.due = RefreshDelay - burst.since
    /\ (burst.changed /\ burst.refreshes = 0) <=> PendingRefreshes # {}
    /\ burst.refreshes <= 1
    /\ burst.refreshes = 1 => burst.since = RefreshDelay

\* the refresh a timer runs comes 500 ms after the last change and stores
\* 100 / n for each of the n symbols then in the entry
RefreshSetsEqualWeights ==
    burst'.refreshes = burst.refreshes + 1 =>
        LET syms == ParseSymbols(entry')
        IN  /\ burst.since = RefreshDelay
            /\ PendingRefreshes' = {}
            /\ portfolio_weights' =
                   [s \in Range(syms) |-> FDiv(Num(100), Num(Len(syms)))]

\* C29: after any sequence of changes of the portfolio entry at most one
\* refresh of the weight inputs is pending, each change having cancelled
\* the refresh scheduled before; a burst of changes is answered by one
\* refresh, 500 ms after its last change, and that refresh stores equal
\* weights for the symbols then in the entry.
C29_DebouncedRefresh ==
    /\ []OneRefreshPending
    /\ [][RefreshSetsEqualWeights]_vars

C29_Witness ==
    /\ burst.refreshes = 1
    /\ burst.since = RefreshDelay
    /\ portfolio_change_timer = 2
    /\ timers = {}
    /\ entry = <<"B">>
    /\ portfolio_weights = [s \in {"B"} |-> Num(100)]

\* x is less than eps away from y
Within(x, y, eps) ==
    FLess(FSub(x, y), eps) /\ FLess(FNeg(eps), FSub(x, y))

\* C30: get_portfolio_weights returns the stored percentages divided by
\* 100 when, and only when, they total 100 within 0.1, and for every other
\* total 1/n for each of the n symbols in the entry; so the weights handed
\* to the analyzer sum to 1 within 0.001 whenever the entry has a symbol.
C30_WeightsSumToOne ==
    AnalyzerCalled =>
        LET total == SumOver(DOMAIN portfolio_weights, portfolio_weights)
            syms  == ParseSymbols(entry)
        IN  /\ Within(total, Num(100), <<1, 10>>) =>
                   ran.weights = [s \in DOMAIN portfolio_weights |->
                                     FDiv(portfolio_weights[s], Num(100))]
            /\ ~Within(total, Num(100), <<1, 10>>) =>
                   ran.weights = [s \in Range(syms) |->
                                     FDiv(One, Num(Len(syms)))]
            /\ syms # <<>> =>
                   Within(SumOver(DOMAIN ran.weights, ran.weights), One,
                          <<1, 1000>>)

====
